---- MODULE Spec2Model ----
(***************************************************************************)
(* Client-side session orchestration of the CMRF AI Agent React app:      *)
(* query submission (App.handleQuery, QueryInput.handleSubmit, ApiClient), *)
(* upload and tab switching, batch microphone capture (QueryInput,         *)
(* MicrophoneButton) and chat-history narration (ChatHistory).             *)
(***************************************************************************)
EXTENDS Integers, Sequences, FiniteSets, TLC

\* ------------------------------------------------------------------------
\* Bounds
\* ------------------------------------------------------------------------
MaxLen == 1
MaxInputLen == 2
MaxQueries == 2
MaxUploads == 1
MaxOverlap == 2
MaxSessions == 3
MaxEntries == 2
MaxSynth == 2
MaxClips == 2
\* startRecording calls of the streaming QueryInput
MaxStreams == 2
\* words of a transcript the streaming backend sends
MaxWords == 2
\* answers the parent passes to the answer panel
MaxAnswers == 2
\* narrations the answer panel asks for
MaxNarrations == 2
\* length of a clip of the answer panel, in steps of playback
MaxPosition == 2

\* ------------------------------------------------------------------------
\* Text: a question is a sequence of characters, each abstracted to the class
\* the regular expressions of detectLanguage tell apart:
\*   "D" a Devanagari character (U+0900..U+097F), "L" a Latin letter,
\*   "C" a letter of another script (Cyrillic), "S" white space.
\* ------------------------------------------------------------------------
Chars == {"D", "L", "C", "S"}

TextsUpTo(n) == UNION {[1..k -> Chars] : k \in 0..n}

\* what the user types into the question field
Texts == TextsUpTo(MaxLen)

\* the questions the input-validation specification submits
InputTexts == TextsUpTo(MaxInputLen)

RECURSIVE TrimLeft(_)
TrimLeft(t) == IF t # <<>> /\ Head(t) = "S" THEN TrimLeft(Tail(t)) ELSE t

RECURSIVE TrimRight(_)
TrimRight(t) ==
  IF t # <<>> /\ t[Len(t)] = "S" THEN TrimRight(SubSeq(t, 1, Len(t) - 1)) ELSE t

Trim(t) == TrimRight(TrimLeft(t))

HasChar(t, c) == \E i \in 1..Len(t) : t[i] = c

\* detectLanguage with a Devanagari range that matches nothing
detectLanguage_NoDevanagari(text) ==
  IF HasChar(text, "L") THEN "en"
  ELSE IF Trim(text) # <<>> THEN "other"
  ELSE "empty"

detectLanguage(text) ==
  IF HasChar(text, "D") THEN "mr_hi"
  ELSE IF HasChar(text, "L") THEN "en"
  ELSE IF Trim(text) # <<>> THEN "other"
  ELSE "empty"

\* ------------------------------------------------------------------------
\* Messages
\* ------------------------------------------------------------------------
LangWarningMsg == "Please use only Marathi, Hindi, or English for your questions."
RateLimitedMsg == "Rate limited. Please wait a moment before trying again."
QueryFailedMsg == "Query failed"
TTSFailedMsg == "TTS generation failed"
ServerErrorMsg == "error.response.data.error"
UploadFailedMsg == "Upload failed"
UploadMessage == "result.message"

\* outcomes of POST /query/ and POST /tts/ as the client sees them
QueryOutcomes == {"ok", "rate", "error", "fail"}
TTSOutcomes == {"audio", "noaudio", "error", "fail"}

\* ApiClient.query: the Error thrown for a failed /query/ request
queryError(out) ==
  IF out = "rate" THEN RateLimitedMsg
  ELSE IF out = "error" THEN ServerErrorMsg
  ELSE QueryFailedMsg

\* ApiClient.generateTTS: the Error thrown for a failed /tts/ request
generateTTSError(out) == IF out = "error" THEN ServerErrorMsg ELSE TTSFailedMsg

NoAnswer == [kind |-> "empty", q |-> 0, msg |-> ""]
\* the reply to query i of this session; ReplyOf(0) is a reply the backend
\* stored earlier
ReplyOf(i) == [kind |-> "reply", q |-> i, msg |-> ""]
ErrorAnswer(m) == [kind |-> "error", q |-> 0, msg |-> m]

\* ------------------------------------------------------------------------
\* State
\* ------------------------------------------------------------------------
VARIABLES
  \* App.js useState
  isApiAvailable, ragInitialized, activeTab, modelKey, uploadedFiles,
  isRagBuilding, isLoading, currentAnswer, currentQuestion, langWarning,
  audioUrl, chatHistory,
  \* the requests of checkApiAvailability and loadChatHistory in flight
  healthCheck, historyLoad,
  \* calls of handleFileUpload and handleQuery with their requests in flight
  uploads, queries,
  \* object URLs created by URL.createObjectURL and not yet revoked
  liveUrls

appVars == <<isApiAvailable, ragInitialized, activeTab, modelKey, uploadedFiles,
             isRagBuilding, isLoading, currentAnswer, currentQuestion,
             langWarning, audioUrl, chatHistory, healthCheck, historyLoad,
             uploads, queries, liveUrls>>

VARIABLES
  \* browser: whether MediaRecorder supports the mime types the code asks for
  mimeTypeSupported,
  \* calls of startRecording: the getUserMedia request, the MediaStream it
  \* was granted, the MediaRecorder and AudioContext made for that stream
  sessions,
  \* state and refs of the QueryInput and of the MicrophoneButton instance
  \* on screen
  queryInput, micButton

recVars == <<mimeTypeSupported, sessions, queryInput, micButton>>

VARIABLES
  \* window.isAnyAudioPlaying
  isAnyAudioPlaying,
  \* state and refs of the ChatHistory instance on screen
  chatHistoryView,
  \* calls of onGenerateTTS made by ChatHistory, Audio elements it created,
  \* and the object URLs it created and has not revoked
  ttsRequests, audios, objectUrls

histVars == <<isAnyAudioPlaying, chatHistoryView, ttsRequests, audios,
              objectUrls>>

\* the streaming QueryInput: its state and refs, and the streaming sessions
\* its startRecording calls opened
VARIABLES streamingInput, streams

streamVars == <<streamingInput, streams>>

\* the answer panel: its state and refs, the narrations it asked for, and
\* the globals it keeps on window
VARIABLES answerSection, narrations, window

answerVars == <<answerSection, narrations, window>>

vars == <<appVars, recVars, histVars, streamVars, answerVars>>

\* what the actions of the App, of the recording components and of the
\* chat-history view leave alone
NotApp == <<recVars, histVars, streamVars, answerVars>>
NotRecording == <<appVars, histVars, streamVars, answerVars>>
NotHistory == <<appVars, recVars, streamVars, answerVars>>
NotStreaming == <<appVars, recVars, histVars, answerVars>>
NotAnswer == <<appVars, recVars, histVars, streamVars>>

\* the App state that only start-up touches
Startup == <<isApiAvailable, healthCheck, historyLoad>>

\* ------------------------------------------------------------------------
\* Browser objects and component instances
\* ------------------------------------------------------------------------
\* a call of startRecording by the instance of component comp on screen;
\* attached: that instance is still mounted, so the state updates of the
\* call's continuations and callbacks still land
NewSession(comp) ==
  [comp |-> comp, attached |-> TRUE, gum |-> "pending", live |-> FALSE,
   stopCalls |-> 0, recorder |-> "none", onstop |-> "none",
   transcribe |-> "none", ctx |-> "none", stopRequested |-> FALSE]

\* the instance of comp unmounts: React drops the state updates its pending
\* continuations make from now on
Detach(ss, comp) ==
  [k \in DOMAIN ss |->
     IF ss[k].comp = comp THEN [ss[k] EXCEPT !.attached = FALSE] ELSE ss[k]]

\* track.stop() on every track of the session's stream
StopTracks(ss, k) ==
  [ss EXCEPT ![k].live = FALSE, ![k].stopCalls = ss[k].stopCalls + 1]

\* MediaRecorder.stop(): the recorder turns inactive and its stop event is
\* queued
StopRecorder(ss, k) ==
  [ss EXCEPT ![k].recorder = "inactive", ![k].onstop = "queued"]

\* QueryInput: useState and useRef initial values (0 stands for null, and
\* inputText names the session whose transcription fills the field)
FreshQueryInput ==
  [mounted |-> TRUE, isRecording |-> FALSE, isTranscribing |-> FALSE,
   mediaRecorderRef |-> 0, inputText |-> 0, errorMessage |-> ""]

\* no QueryInput on screen
NoQueryInput == [FreshQueryInput EXCEPT !.mounted = FALSE]

\* MicrophoneButton: useState and useRef initial values; disabled is the
\* prop, transcription the text its parent received through onTranscription
FreshMicrophoneButton(disabled, transcription) ==
  [mounted |-> TRUE, disabled |-> disabled, isRecording |-> FALSE,
   isProcessing |-> FALSE, mediaRecorderRef |-> 0, audioContextRef |-> 0,
   warning |-> "", transcription |-> transcription]

\* no MicrophoneButton on screen
NoMicrophoneButton(disabled, transcription) ==
  [FreshMicrophoneButton(disabled, transcription) EXCEPT !.mounted = FALSE]

\* nothing is rendered before the health check has answered
RecInit ==
  /\ mimeTypeSupported \in BOOLEAN
  /\ sessions = <<>>
  /\ queryInput = NoQueryInput
  /\ micButton = NoMicrophoneButton(FALSE, 0)

\* ChatHistory: useState and useRef initial values
FreshChatHistory ==
  [mounted |-> TRUE, playingIndex |-> 0, generatingTTSIndex |-> 0,
   currentAudio |-> 0, audioUrl |-> 0, pausedAt |-> 0, autoPlayBlocked |-> {}]

\* no ChatHistory on screen
NoChatHistory == [FreshChatHistory EXCEPT !.mounted = FALSE]

HistInit ==
  /\ isAnyAudioPlaying = FALSE
  /\ chatHistoryView = NoChatHistory
  /\ ttsRequests = <<>>
  /\ audios = <<>>
  /\ objectUrls = {}

\* a clip is in the Playing state
Playing(a) == ~audios[a].paused

\* audio.pause()
PauseAudio(as, a) == [as EXCEPT ![a].paused = TRUE]

\* the ChatHistory instance unmounts: the state updates of its pending
\* continuations and of the handlers of its Audio elements are dropped
DetachAll(xs) == [k \in DOMAIN xs |-> [xs[k] EXCEPT !.attached = FALSE]]

\* ------------------------------------------------------------------------
\* App: construction
\* ------------------------------------------------------------------------
AppInit ==
  /\ isApiAvailable = "null"
  /\ healthCheck = "pending"
  /\ historyLoad = "none"
  /\ ragInitialized = FALSE
  /\ activeTab = "upload"
  /\ modelKey = 0
  /\ uploadedFiles = [pdf |-> FALSE, txt |-> FALSE]
  /\ isRagBuilding = FALSE
  /\ isLoading = FALSE
  /\ currentAnswer = NoAnswer
  /\ currentQuestion = <<>>
  /\ langWarning = ""
  /\ audioUrl = 0
  /\ chatHistory = <<>>
  /\ uploads = <<>>
  /\ queries = <<>>
  /\ liveUrls = {}

\* ------------------------------------------------------------------------
\* Start-up: checkApiAvailability and loadChatHistory
\* ------------------------------------------------------------------------
\* what GET /chat-history/ returns: n entries the backend stored earlier
ServerHistory(n) ==
  [i \in 1..n |-> [user |-> <<"L">>, assistant |-> ReplyOf(0)]]

\* healthCheck settles; when the API is available loadChatHistory is started
healthCheckResponse(available) ==
  /\ healthCheck = "pending"
  /\ healthCheck' = "idle"
  /\ isApiAvailable' = IF available THEN "true" ELSE "false"
  /\ historyLoad' = IF available THEN "pending" ELSE historyLoad
  /\ UNCHANGED <<ragInitialized, activeTab, modelKey, uploadedFiles,
                 isRagBuilding, isLoading, currentAnswer, currentQuestion,
                 langWarning, audioUrl, chatHistory, uploads, queries,
                 liveUrls>>
  /\ UNCHANGED NotApp

\* the Retry Connection button of the "API Not Available" screen
checkApiAvailability ==
  /\ isApiAvailable = "false"
  /\ healthCheck = "idle"
  /\ healthCheck' = "pending"
  /\ UNCHANGED <<isApiAvailable, historyLoad>>
  /\ UNCHANGED <<ragInitialized, activeTab, modelKey, uploadedFiles,
                 isRagBuilding, isLoading, currentAnswer, currentQuestion,
                 langWarning, audioUrl, chatHistory, uploads, queries,
                 liveUrls>>
  /\ UNCHANGED NotApp

\* getChatHistory resolves (with [] when the request failed) and
\* loadChatHistory sets chatHistory to what it returned
loadChatHistoryResponse(n) ==
  /\ historyLoad = "pending"
  /\ n \in 0..MaxEntries
  /\ historyLoad' = "done"
  /\ chatHistory' = ServerHistory(n)
  /\ UNCHANGED <<isApiAvailable, healthCheck>>
  /\ UNCHANGED <<ragInitialized, activeTab, modelKey, uploadedFiles,
                 isRagBuilding, isLoading, currentAnswer, currentQuestion,
                 langWarning, audioUrl, uploads, queries, liveUrls>>
  /\ UNCHANGED NotApp

\* ------------------------------------------------------------------------
\* SidePanel: the Home, Chat and History buttons
\* ------------------------------------------------------------------------
Tabs == {"upload", "chat", "history"}

\* setActiveTab(tab) once committed.  QueryInput is rendered on the chat tab
\* and ChatHistory on the history tab: the component of the tab that is left
\* unmounts (QueryInput registers no cleanup, the cleanup of ChatHistory's
\* effect pauses currentAudio and clears the flag), the component of the tab
\* that is entered mounts with fresh state, and App's activeTab effect
\* clears the flag unless the chat tab is entered.
TabChange(tab) ==
  LET c == chatHistoryView.currentAudio IN
  /\ activeTab' = tab
  /\ IF tab = activeTab
     THEN UNCHANGED <<queryInput, sessions, chatHistoryView, ttsRequests,
                      audios, isAnyAudioPlaying>>
     ELSE /\ queryInput' = IF tab = "chat" THEN FreshQueryInput
                           ELSE NoQueryInput
          /\ sessions' = IF activeTab = "chat"
                         THEN Detach(sessions, "QueryInput") ELSE sessions
          /\ chatHistoryView' = IF tab = "history" THEN FreshChatHistory
                                ELSE NoChatHistory
          /\ ttsRequests' = IF activeTab = "history"
                            THEN DetachAll(ttsRequests) ELSE ttsRequests
          /\ audios' = IF activeTab = "history"
                       THEN DetachAll(IF c # 0 THEN PauseAudio(audios, c)
                                      ELSE audios)
                       ELSE audios
          /\ isAnyAudioPlaying' =
               IF tab # "chat" THEN FALSE
               ELSE IF activeTab = "history" /\ c # 0 THEN FALSE
               ELSE isAnyAudioPlaying
  /\ UNCHANGED <<mimeTypeSupported, micButton, objectUrls>>
  /\ UNCHANGED <<streamVars, answerVars>>

\* SidePanel whose Chat and History buttons are not disabled before the
\* first upload
SetActiveTab_AnyTab(tab) ==
  /\ isApiAvailable = "true"
  /\ tab \in Tabs
  /\ tab # activeTab
  /\ TabChange(tab)
  /\ UNCHANGED <<ragInitialized, modelKey, uploadedFiles, isRagBuilding,
                 isLoading, currentAnswer, currentQuestion, langWarning,
                 audioUrl, chatHistory, uploads, queries, liveUrls>>
  /\ UNCHANGED Startup

SetActiveTab(tab) ==
  /\ isApiAvailable = "true"
  /\ tab \in Tabs
  /\ tab # activeTab
  /\ tab # "upload" => ragInitialized
  /\ TabChange(tab)
  /\ UNCHANGED <<ragInitialized, modelKey, uploadedFiles, isRagBuilding,
                 isLoading, currentAnswer, currentQuestion, langWarning,
                 audioUrl, chatHistory, uploads, queries, liveUrls>>
  /\ UNCHANGED Startup

\* ------------------------------------------------------------------------
\* Upload: FileUploader.handleUpload -> App.handleFileUpload -> uploadFiles
\* ------------------------------------------------------------------------
\* uploadFiles that appends the pdf_file part whether or not a PDF was given
uploadFiles_AlwaysPdf(pdfFile, txtFile) ==
  {"pdf_file"} \cup (IF txtFile THEN {"txt_file"} ELSE {})

\* ApiClient.uploadFiles: the multipart form carries a part only for a file
\* that was given
uploadFiles(pdfFile, txtFile) ==
  (IF pdfFile THEN {"pdf_file"} ELSE {}) \cup (IF txtFile THEN {"txt_file"} ELSE {})

\* ApiClient.uploadFiles: the Error thrown for a failed /upload/ request
uploadFilesError(out) ==
  IF out = "error" THEN ServerErrorMsg ELSE UploadFailedMsg

\* what handleFileUpload returns to FileUploader.handleUpload
NoResult == [success |-> FALSE, message |-> ""]
UploadResult(success, message) == [success |-> success, message |-> message]

\* the part of handleFileUpload before its await, for at most n uploads
handleFileUploadUpTo(n, pdfFile, txtFile) ==
  /\ Len(uploads) < n
  /\ isRagBuilding' = TRUE
  /\ uploads' = Append(uploads, [pdf |-> pdfFile, txt |-> txtFile,
                                 form |-> uploadFiles(pdfFile, txtFile),
                                 state |-> "pending", result |-> NoResult])
  /\ UNCHANGED <<ragInitialized, activeTab, modelKey, uploadedFiles,
                 isLoading, currentAnswer, currentQuestion, langWarning,
                 audioUrl, chatHistory, queries, liveUrls>>
  /\ UNCHANGED Startup
  /\ UNCHANGED NotApp

handleFileUpload(pdfFile, txtFile) ==
  handleFileUploadUpTo(MaxUploads, pdfFile, txtFile)

\* FileUploader: selecting files runs the auto-upload effect
handleUpload(pdfFile, txtFile) ==
  /\ isApiAvailable = "true"
  /\ activeTab = "upload"
  /\ pdfFile \/ txtFile
  /\ ~isLoading
  /\ handleFileUpload(pdfFile, txtFile)

\* the /upload/ response arrives with model_key u and handleFileUpload resumes
UploadSucceeds(u) ==
  /\ u \in 1..Len(uploads)
  /\ uploads[u].state = "pending"
  /\ uploads' = [uploads EXCEPT ![u].state = "ok",
                                ![u].result = UploadResult(TRUE, UploadMessage)]
  /\ uploadedFiles' = [pdf |-> uploads[u].pdf, txt |-> uploads[u].txt]
  /\ ragInitialized' = TRUE
  /\ TabChange("chat")
  /\ modelKey' = u
  /\ isRagBuilding' = FALSE
  /\ UNCHANGED <<isLoading, currentAnswer, currentQuestion, langWarning,
                 audioUrl, chatHistory, queries, liveUrls>>
  /\ UNCHANGED Startup

\* handleFileUpload without its finally block
UploadFails_NoFinally(u) ==
  /\ u \in 1..Len(uploads)
  /\ uploads[u].state = "pending"
  /\ \E out \in {"error", "fail"} :
       uploads' = [uploads EXCEPT
                     ![u].state = out,
                     ![u].result = UploadResult(FALSE, uploadFilesError(out))]
  /\ UNCHANGED <<ragInitialized, activeTab, modelKey, uploadedFiles,
                 isRagBuilding, isLoading, currentAnswer, currentQuestion,
                 langWarning, audioUrl, chatHistory, queries, liveUrls>>
  /\ UNCHANGED Startup
  /\ UNCHANGED NotApp

\* the /upload/ request of upload u fails, with an error body from the
\* server or without one: the catch and finally blocks of handleFileUpload
UploadFails(u) ==
  /\ u \in 1..Len(uploads)
  /\ uploads[u].state = "pending"
  /\ \E out \in {"error", "fail"} :
       uploads' = [uploads EXCEPT
                     ![u].state = out,
                     ![u].result = UploadResult(FALSE, uploadFilesError(out))]
  /\ isRagBuilding' = FALSE
  /\ UNCHANGED <<ragInitialized, activeTab, modelKey, uploadedFiles,
                 isLoading, currentAnswer, currentQuestion, langWarning,
                 audioUrl, chatHistory, queries, liveUrls>>
  /\ UNCHANGED Startup
  /\ UNCHANGED NotApp

\* ------------------------------------------------------------------------
\* Query: QueryInput.handleSubmit -> App.handleQuery -> ApiClient
\* ------------------------------------------------------------------------
\* ApiClient.query(inputText, model, enhancedMode, voiceLangPref, modelKey):
\* the JSON body of POST /query/ (0 stands for null)
query(inputText, model, modelKeyArg) ==
  [input_text |-> inputText, model |-> model, model_key |-> modelKeyArg]

NoBody == [input_text |-> <<>>, model |-> 0, model_key |-> 0]

\* the body that the call apiClient.query(inputText, modelKey) of handleQuery
\* sends: the second positional parameter of query is model, the fifth
\* (modelKey) keeps its default null
handleQueryBody(inputText) == query(inputText, modelKey, 0)

\* ApiClient.generateTTS(text, langPreference): the form of POST /tts/
generateTTS(text, langPreference) ==
  [text |-> text, lang_preference |-> langPreference]

NoForm == [text |-> <<>>, lang_preference |-> ""]

\* the queries whose /query/ request is still unanswered
AnswerPending == {i \in 1..Len(queries) : queries[i].textReq = "pending"}

\* the part of handleQuery before its await.  Each call is logged in queries
\* with its requests; uploadKey is the model_key the last successful upload
\* returned, overtook the earlier queries still waiting for their answer.
handleQuery(inputText) ==
  /\ Len(queries) < MaxQueries
  /\ Trim(inputText) # <<>>
  /\ LET lang == detectLanguage(inputText) IN
     /\ currentQuestion' = inputText
     /\ IF lang = "other"
        THEN /\ langWarning' = LangWarningMsg
             /\ currentAnswer' = NoAnswer
             /\ queries' = Append(queries,
                  [text |-> inputText, lang |-> lang, handler |-> "rejected",
                   textReq |-> "none", ttsReq |-> "none", body |-> NoBody,
                   tts |-> NoForm, closureAudioUrl |-> audioUrl,
                   uploadKey |-> modelKey, overtook |-> AnswerPending])
             /\ UNCHANGED isLoading
        ELSE /\ langWarning' = ""
             /\ isLoading' = TRUE
             /\ queries' = Append(queries,
                  [text |-> inputText, lang |-> lang, handler |-> "awaiting",
                   textReq |-> "pending", ttsReq |-> "pending",
                   body |-> handleQueryBody(inputText),
                   tts |-> generateTTS(inputText, "auto"),
                   closureAudioUrl |-> audioUrl,
                   uploadKey |-> modelKey, overtook |-> AnswerPending])
             /\ UNCHANGED currentAnswer
  /\ UNCHANGED <<ragInitialized, activeTab, modelKey, uploadedFiles,
                 isRagBuilding, audioUrl, chatHistory, uploads, liveUrls>>
  /\ UNCHANGED Startup

\* QueryInput.handleSubmit / handleKeyDown: the form of the chat tab, whose
\* field and button are disabled while isLoading or isTranscribing; the text
\* is what the user typed into the field
handleSubmit(inputText) ==
  /\ queryInput.mounted
  /\ Trim(inputText) # <<>>
  /\ ~isLoading
  /\ ~queryInput.isTranscribing
  /\ handleQuery(Trim(inputText))
  /\ queryInput' = [queryInput EXCEPT !.inputText = 0]
  /\ UNCHANGED <<mimeTypeSupported, sessions, micButton>>
  /\ UNCHANGED histVars
  /\ UNCHANGED <<streamVars, answerVars>>

\* handleQuery after Promise.all resolved: both responses are there
HandlerResolves(i, tts) ==
  /\ currentAnswer' = ReplyOf(i)
  /\ IF tts = "audio"
     THEN /\ liveUrls' = (liveUrls \ {queries[i].closureAudioUrl}) \cup {i}
          /\ audioUrl' = i
     ELSE /\ audioUrl' = 0
          /\ UNCHANGED liveUrls
  /\ chatHistory' = <<[user |-> queries[i].text, assistant |-> ReplyOf(i)]>>
                      \o chatHistory
  /\ isLoading' = FALSE
  /\ UNCHANGED currentQuestion

\* a catch block that forgets setAudioUrl(null)
HandlerCatches_KeepsAudio(i, msg) ==
  /\ currentAnswer' = ErrorAnswer(msg)
  /\ currentQuestion' = queries[i].text
  /\ isLoading' = FALSE
  /\ UNCHANGED <<audioUrl, chatHistory, liveUrls>>

\* handleQuery after Promise.all rejected with Error(msg): the catch block
HandlerCatches(i, msg) ==
  /\ currentAnswer' = ErrorAnswer(msg)
  /\ audioUrl' = 0
  /\ currentQuestion' = queries[i].text
  /\ isLoading' = FALSE
  /\ UNCHANGED <<chatHistory, liveUrls>>

HandlerIdle ==
  UNCHANGED <<isLoading, currentAnswer, currentQuestion, audioUrl,
              chatHistory, liveUrls>>

\* the /query/ response of query i arrives; Promise.all settles when it is a
\* rejection or when the /tts/ response is already there
QueryResponse(i, out) ==
  /\ i \in 1..Len(queries)
  /\ out \in QueryOutcomes
  /\ queries[i].textReq = "pending"
  /\ LET q == queries[i] IN
     IF q.handler # "awaiting"
     THEN /\ queries' = [queries EXCEPT ![i].textReq = out]
          /\ HandlerIdle
     ELSE IF out # "ok"
     THEN /\ queries' = [queries EXCEPT ![i].textReq = out,
                                        ![i].handler = "failed"]
          /\ HandlerCatches(i, queryError(out))
     ELSE IF q.ttsReq \in {"audio", "noaudio"}
     THEN /\ queries' = [queries EXCEPT ![i].textReq = out,
                                        ![i].handler = "resolved"]
          /\ HandlerResolves(i, q.ttsReq)
     ELSE /\ queries' = [queries EXCEPT ![i].textReq = out]
          /\ HandlerIdle
  /\ UNCHANGED <<ragInitialized, activeTab, modelKey, uploadedFiles,
                 isRagBuilding, langWarning, uploads>>
  /\ UNCHANGED Startup
  /\ UNCHANGED NotApp

\* the /tts/ response of query i arrives
TTSResponse(i, out) ==
  /\ i \in 1..Len(queries)
  /\ out \in TTSOutcomes
  /\ queries[i].ttsReq = "pending"
  /\ LET q == queries[i] IN
     IF q.handler # "awaiting"
     THEN /\ queries' = [queries EXCEPT ![i].ttsReq = out]
          /\ HandlerIdle
     ELSE IF out \in {"error", "fail"}
     THEN /\ queries' = [queries EXCEPT ![i].ttsReq = out,
                                        ![i].handler = "failed"]
          /\ HandlerCatches(i, generateTTSError(out))
     ELSE IF q.textReq = "ok"
     THEN /\ queries' = [queries EXCEPT ![i].ttsReq = out,
                                        ![i].handler = "resolved"]
          /\ HandlerResolves(i, out)
     ELSE /\ queries' = [queries EXCEPT ![i].ttsReq = out]
          /\ HandlerIdle
  /\ UNCHANGED <<ragInitialized, activeTab, modelKey, uploadedFiles,
                 isRagBuilding, langWarning, uploads>>
  /\ UNCHANGED Startup
  /\ UNCHANGED NotApp

\* ------------------------------------------------------------------------
\* QueryInput.js: batch recording with MediaRecorder
\* ------------------------------------------------------------------------
\* getSupportedMimeType() returns a non-empty type
getSupportedMimeType == mimeTypeSupported

\* does a state update of the instance that started session k still land
QueryInput_Current(k) ==
  queryInput.mounted /\ sessions[k].comp = "QueryInput" /\ sessions[k].attached

\* startRecording up to its await of getUserMedia
QueryInput_startRecording ==
  /\ Len(sessions) < MaxSessions
  /\ queryInput' = [queryInput EXCEPT !.errorMessage = "",
                                       !.isTranscribing = TRUE]
  /\ sessions' = Append(sessions, NewSession("QueryInput"))

QueryInput_stopRecording ==
  LET k == queryInput.mediaRecorderRef
      s1 == IF k # 0 /\ sessions[k].recorder # "inactive"
            THEN StopRecorder(sessions, k) ELSE sessions
      s2 == IF k # 0 THEN [StopTracks(s1, k) EXCEPT ![k].stopRequested = TRUE]
            ELSE s1
  IN /\ sessions' = s2
     /\ queryInput' = [queryInput EXCEPT !.isRecording = FALSE,
                                          !.isTranscribing = FALSE,
                                          !.errorMessage = ""]

\* the mic button: it stops while recording, starts when idle, and does
\* nothing while isTranscribing is set and isRecording is not
QueryInput_handleMicClick ==
  /\ queryInput.mounted
  /\ IF queryInput.isRecording THEN QueryInput_stopRecording
     ELSE IF ~queryInput.isTranscribing THEN QueryInput_startRecording
     ELSE UNCHANGED <<sessions, queryInput>>
  /\ UNCHANGED <<mimeTypeSupported, micButton>>
  /\ UNCHANGED NotRecording

\* getUserMedia resolves with a stream and startRecording resumes
QueryInput_getUserMediaGranted(k) ==
  /\ k \in 1..Len(sessions)
  /\ sessions[k].gum = "pending"
  /\ IF ~getSupportedMimeType
     THEN /\ sessions' = [sessions EXCEPT ![k].gum = "granted", ![k].live = TRUE]
          /\ queryInput' = IF QueryInput_Current(k)
                           THEN [queryInput EXCEPT !.isTranscribing = FALSE]
                           ELSE queryInput
     ELSE /\ sessions' = [sessions EXCEPT ![k].gum = "granted", ![k].live = TRUE,
                                          ![k].recorder = "recording"]
          /\ queryInput' = IF QueryInput_Current(k)
                           THEN [queryInput EXCEPT !.mediaRecorderRef = k,
                                                   !.isRecording = TRUE]
                           ELSE queryInput
  /\ UNCHANGED <<mimeTypeSupported, micButton>>
  /\ UNCHANGED NotRecording

\* getUserMedia rejects: the catch block of startRecording
QueryInput_getUserMediaDenied(k) ==
  /\ k \in 1..Len(sessions)
  /\ sessions[k].gum = "pending"
  /\ sessions' = [sessions EXCEPT ![k].gum = "denied"]
  /\ queryInput' = IF QueryInput_Current(k)
                   THEN [queryInput EXCEPT !.isTranscribing = FALSE,
                                           !.isRecording = FALSE]
                   ELSE queryInput
  /\ UNCHANGED <<mimeTypeSupported, micButton>>
  /\ UNCHANGED NotRecording

\* mediaRecorder.onstop: the recording is posted to /transcribe
QueryInput_onstop(k) ==
  /\ k \in 1..Len(sessions)
  /\ sessions[k].onstop = "queued"
  /\ sessions' = [sessions EXCEPT ![k].onstop = "done",
                                  ![k].transcribe = "pending"]
  /\ UNCHANGED <<mimeTypeSupported, queryInput, micButton>>
  /\ UNCHANGED NotRecording

TranscribeOutcomes == {"transcription", "error", "unknown", "notok", "fail"}

\* the /transcribe response of session k arrives and onstop resumes
QueryInput_transcribeResponse(k, out) ==
  /\ k \in 1..Len(sessions)
  /\ out \in TranscribeOutcomes
  /\ sessions[k].transcribe = "pending"
  /\ sessions' = [sessions EXCEPT ![k].transcribe = "done"]
  /\ queryInput' =
       IF ~QueryInput_Current(k) THEN queryInput
       ELSE IF out = "transcription"
       THEN [queryInput EXCEPT !.inputText = k, !.errorMessage = "",
                               !.isTranscribing = FALSE, !.isRecording = FALSE]
       ELSE IF out = "error"
       THEN [queryInput EXCEPT !.inputText = 0,
                               !.errorMessage = "Transcription error: ",
                               !.isTranscribing = FALSE, !.isRecording = FALSE]
       ELSE IF out = "unknown"
       THEN [queryInput EXCEPT !.inputText = 0,
                               !.errorMessage = "Unknown backend response.",
                               !.isTranscribing = FALSE, !.isRecording = FALSE]
       ELSE [queryInput EXCEPT !.errorMessage = "Transcription failed: ",
                               !.isTranscribing = FALSE, !.isRecording = FALSE]
  /\ UNCHANGED <<mimeTypeSupported, micButton>>
  /\ UNCHANGED NotRecording

NextQueryInput ==
  \/ QueryInput_handleMicClick
  \/ \E k \in 1..MaxSessions : QueryInput_getUserMediaGranted(k)
  \/ \E k \in 1..MaxSessions : QueryInput_getUserMediaDenied(k)
  \/ \E k \in 1..MaxSessions : QueryInput_onstop(k)
  \/ \E k \in 1..MaxSessions, out \in TranscribeOutcomes :
        QueryInput_transcribeResponse(k, out)
  \/ \E tab \in Tabs : SetActiveTab(tab)
  \/ \E pdfFile \in BOOLEAN, txtFile \in BOOLEAN : handleUpload(pdfFile, txtFile)
  \/ \E u \in 1..MaxUploads : UploadSucceeds(u)
  \/ healthCheckResponse(TRUE)

\* ------------------------------------------------------------------------
\* MicrophoneButton.js: batch recording with MediaRecorder and level meter
\* ------------------------------------------------------------------------
MicrophoneButton_Current(k) ==
  /\ micButton.mounted
  /\ sessions[k].comp = "MicrophoneButton" /\ sessions[k].attached

\* startRecording up to its await of getUserMedia
MicrophoneButton_startRecording ==
  /\ Len(sessions) < MaxSessions
  /\ micButton' = [micButton EXCEPT !.warning = ""]
  /\ sessions' = Append(sessions, NewSession("MicrophoneButton"))

MicrophoneButton_stopRecording ==
  LET k == micButton.mediaRecorderRef
      c == micButton.audioContextRef
      s1 == IF k # 0 /\ sessions[k].recorder = "recording"
            THEN StopRecorder(sessions, k) ELSE sessions
      s2 == IF c # 0 THEN [s1 EXCEPT ![c].ctx = "closed"] ELSE s1
      s3 == IF k # 0 THEN [s2 EXCEPT ![k].stopRequested = TRUE] ELSE s2
  IN /\ sessions' = s3
     /\ micButton' = [micButton EXCEPT !.isRecording = FALSE]

\* the button is disabled while the parent disables it or while processing
MicrophoneButton_handleClick ==
  /\ micButton.mounted
  /\ ~(micButton.disabled \/ micButton.isProcessing)
  /\ IF micButton.isRecording THEN MicrophoneButton_stopRecording
     ELSE MicrophoneButton_startRecording
  /\ UNCHANGED <<mimeTypeSupported, queryInput>>
  /\ UNCHANGED NotRecording

\* getUserMedia resolves: AudioContext and analyser are set up, then the
\* MediaRecorder constructor throws when audio/webm;codecs=opus is unsupported
MicrophoneButton_getUserMediaGranted(k) ==
  /\ k \in 1..Len(sessions)
  /\ sessions[k].gum = "pending"
  /\ IF ~mimeTypeSupported
     THEN /\ sessions' = [sessions EXCEPT ![k].gum = "granted", ![k].live = TRUE,
                                          ![k].ctx = "open"]
          /\ micButton' = IF MicrophoneButton_Current(k)
                          THEN [micButton EXCEPT !.audioContextRef = k,
                                  !.warning = "Please allow microphone access to use voice input."]
                          ELSE micButton
     ELSE /\ sessions' = [sessions EXCEPT ![k].gum = "granted", ![k].live = TRUE,
                                          ![k].ctx = "open",
                                          ![k].recorder = "recording"]
          /\ micButton' = IF MicrophoneButton_Current(k)
                          THEN [micButton EXCEPT !.audioContextRef = k,
                                                 !.mediaRecorderRef = k,
                                                 !.isRecording = TRUE]
                          ELSE micButton
  /\ UNCHANGED <<mimeTypeSupported, queryInput>>
  /\ UNCHANGED NotRecording

MicrophoneButton_getUserMediaDenied(k) ==
  /\ k \in 1..Len(sessions)
  /\ sessions[k].gum = "pending"
  /\ sessions' = [sessions EXCEPT ![k].gum = "denied"]
  /\ micButton' = IF MicrophoneButton_Current(k)
                  THEN [micButton EXCEPT
                          !.warning = "Please allow microphone access to use voice input."]
                  ELSE micButton
  /\ UNCHANGED <<mimeTypeSupported, queryInput>>
  /\ UNCHANGED NotRecording

\* mediaRecorder.onstop: isProcessing is set and the blob goes to /transcribe
MicrophoneButton_onstop(k) ==
  /\ k \in 1..Len(sessions)
  /\ sessions[k].onstop = "queued"
  /\ sessions' = [sessions EXCEPT ![k].onstop = "done",
                                  ![k].transcribe = "pending"]
  /\ micButton' = IF MicrophoneButton_Current(k)
                  THEN [micButton EXCEPT !.isProcessing = TRUE]
                  ELSE micButton
  /\ UNCHANGED <<mimeTypeSupported, queryInput>>
  /\ UNCHANGED NotRecording

\* a transcription, or an error whose message decides the warning
MicTranscribeOutcomes ==
  {"transcription", "No speech detected", "language", "Rate limited",
   "Failed to convert audio", "other"}

MicrophoneButton_errorMessage(out) ==
  IF out = "No speech detected"
  THEN "No speech detected. Please speak more clearly."
  ELSE IF out = "language"
  THEN "Language not supported. Please speak in English, Hindi, or Marathi."
  ELSE IF out = "Rate limited"
  THEN "Too many requests. Please wait a moment and try again."
  ELSE IF out = "Failed to convert audio"
  THEN "Audio format not supported. Please try again."
  ELSE "Failed to transcribe audio. Please try again."

\* transcribeAudio settles and onstop resumes; onTranscription is the
\* parent's handleTranscription, which sets the parent's inputText
MicrophoneButton_transcribeResponse(k, out) ==
  /\ k \in 1..Len(sessions)
  /\ out \in MicTranscribeOutcomes
  /\ sessions[k].transcribe = "pending"
  /\ sessions' = [sessions EXCEPT ![k].transcribe = "done"]
  /\ micButton' =
       IF ~MicrophoneButton_Current(k) THEN micButton
       ELSE IF out = "transcription"
       THEN [micButton EXCEPT !.transcription = k, !.isProcessing = FALSE]
       ELSE [micButton EXCEPT !.warning = MicrophoneButton_errorMessage(out),
                              !.isProcessing = FALSE]
  /\ UNCHANGED <<mimeTypeSupported, queryInput>>
  /\ UNCHANGED NotRecording

\* the parent is taken off the screen; the cleanup of the mount effect stops
\* a recorder that is recording
MicrophoneButton_unmount ==
  /\ micButton.mounted
  /\ LET k == micButton.mediaRecorderRef IN
     sessions' = Detach(IF k # 0 /\ sessions[k].recorder = "recording"
                        THEN StopRecorder(sessions, k) ELSE sessions,
                        "MicrophoneButton")
  /\ micButton' = NoMicrophoneButton(micButton.disabled, 0)
  /\ UNCHANGED <<mimeTypeSupported, queryInput>>
  /\ UNCHANGED NotRecording

\* the parent (the QueryInput variant that renders a MicrophoneButton) is
\* put on the screen
MicrophoneButton_mount ==
  /\ ~micButton.mounted
  /\ micButton' = FreshMicrophoneButton(micButton.disabled, 0)
  /\ UNCHANGED <<mimeTypeSupported, sessions, queryInput>>
  /\ UNCHANGED NotRecording

\* the parent passes disabled = isLoading || isRagBuilding
MicrophoneButton_setDisabled(b) ==
  /\ micButton.mounted
  /\ micButton.disabled # b
  /\ micButton' = [micButton EXCEPT !.disabled = b]
  /\ UNCHANGED <<mimeTypeSupported, sessions, queryInput>>
  /\ UNCHANGED NotRecording

NextMicrophoneButton ==
  \/ MicrophoneButton_handleClick
  \/ \E k \in 1..MaxSessions : MicrophoneButton_getUserMediaGranted(k)
  \/ \E k \in 1..MaxSessions : MicrophoneButton_getUserMediaDenied(k)
  \/ \E k \in 1..MaxSessions : MicrophoneButton_onstop(k)
  \/ \E k \in 1..MaxSessions, out \in MicTranscribeOutcomes :
        MicrophoneButton_transcribeResponse(k, out)
  \/ MicrophoneButton_unmount
  \/ MicrophoneButton_mount
  \/ \E b \in BOOLEAN : MicrophoneButton_setDisabled(b)

\* ------------------------------------------------------------------------
\* ChatHistory (the variant with play, resume and replay controls): one
\* Audio element at a time is held in currentAudio.  The state updates of a
\* handler are committed, and the effects they trigger run, before the next
\* event is handled; a media event (play, pause) is handled right after the
\* handler that caused it.
\* ------------------------------------------------------------------------
\* the entries the view renders, one per element of the chatHistory prop
Entries == 1..Len(chatHistory)

\* do the state updates made by the handlers of an audio, or by the
\* continuation of a request, still land: the instance that created it (x is
\* the audio or the request) is still the one on screen
ChatHistory_Owns(x) == chatHistoryView.mounted /\ x.attached

\* the handlers handleTTSPlay installs set the global flag, those of
\* handleTTSReplay do not
SetsFlag(a) == audios[a].kind = "play"

\* handleTTSPlay up to its await of onGenerateTTS.  It first dispatches
\* stopAllAudioPlayback, which the stopAll listener of the effect handles
\* synchronously, and then works on the state of its own render.
handleTTSPlay(index) ==
  LET v == chatHistoryView
      c == v.currentAudio
      wasPlaying == c # 0 /\ Playing(c)
      \* stopAll; interrupted records that the clip was playing for another
      \* entry when this request paused it
      au1 == IF c # 0
             THEN [PauseAudio(audios, c) EXCEPT
                     ![c].interrupted = @ \/ (wasPlaying /\ audios[c].index # index)]
             ELSE audios
      flag1 == IF c # 0 THEN FALSE ELSE isAnyAudioPlaying
      vL == IF c # 0
            THEN [v EXCEPT !.playingIndex = 0, !.pausedAt = audios[c].currentTime]
            ELSE v
  IN
  /\ v.mounted
  /\ index \in Entries
  /\ v.generatingTTSIndex # index
  /\ IF flag1
     THEN \* another audio is still flagged as playing
          /\ chatHistoryView' = vL
          /\ audios' = au1
          /\ isAnyAudioPlaying' = flag1
          /\ UNCHANGED <<ttsRequests, objectUrls>>
     ELSE IF /\ v.generatingTTSIndex = 0 /\ v.playingIndex = index
             /\ c # 0 /\ au1[c].paused /\ v.pausedAt > 0
     THEN IF index \in v.autoPlayBlocked
          THEN /\ chatHistoryView' = vL
               /\ audios' = au1
               /\ isAnyAudioPlaying' = flag1
               /\ UNCHANGED <<ttsRequests, objectUrls>>
          ELSE \* resume currentAudio at pausedAt
               /\ audios' = [au1 EXCEPT ![c].paused = FALSE,
                                         ![c].currentTime = v.pausedAt]
               /\ chatHistoryView' =
                    [vL EXCEPT !.playingIndex = audios[c].onplayIndex,
                               !.pausedAt = 0]
               /\ isAnyAudioPlaying' = IF SetsFlag(c) THEN TRUE ELSE flag1
               /\ UNCHANGED <<ttsRequests, objectUrls>>
     ELSE IF v.playingIndex = index /\ c # 0 /\ ~au1[c].paused
     THEN \* pause the playing audio of this entry
          /\ audios' = PauseAudio(au1, c)
          /\ chatHistoryView' =
               [vL EXCEPT !.pausedAt = au1[c].currentTime,
                          !.playingIndex = 0,
                          !.autoPlayBlocked = v.autoPlayBlocked \cup {index}]
          /\ isAnyAudioPlaying' = FALSE
          /\ UNCHANGED <<ttsRequests, objectUrls>>
     ELSE \* drop the current audio and its URL and request synthesis
          /\ Len(ttsRequests) < MaxSynth
          /\ audios' = au1
          /\ chatHistoryView' =
               [vL EXCEPT !.playingIndex = 0,
                          !.currentAudio = 0,
                          !.pausedAt = IF wasPlaying THEN audios[c].currentTime
                                       ELSE 0,
                          !.audioUrl = 0,
                          !.generatingTTSIndex = index]
          /\ objectUrls' = objectUrls \ {v.audioUrl}
          /\ isAnyAudioPlaying' = FALSE
          /\ ttsRequests' = Append(ttsRequests,
                              [attached |-> TRUE, index |-> index,
                               state |-> "pending"])
  /\ UNCHANGED NotHistory

\* onGenerateTTS resolved with null or without audio_base64
TTSResolvesEmpty(r) ==
  /\ r \in 1..Len(ttsRequests)
  /\ ttsRequests[r].state = "pending"
  /\ ttsRequests' = [ttsRequests EXCEPT ![r].state = "done"]
  /\ chatHistoryView' = IF ChatHistory_Owns(ttsRequests[r])
                        THEN [chatHistoryView EXCEPT !.generatingTTSIndex = 0]
                        ELSE chatHistoryView
  /\ UNCHANGED <<isAnyAudioPlaying, audios, objectUrls>>
  /\ UNCHANGED NotHistory

\* onGenerateTTS resolved with audio: handleTTSPlay creates the Audio element
\* and plays it; played is whether the browser lets audio.play() start.  The
\* commit of setCurrentAudio runs the cleanup of the effect, which pauses the
\* audio that was current before.
TTSResolvesAudio(r, played) ==
  LET v == chatHistoryView
      req == ttsRequests[r]
      owns == ChatHistory_Owns(req)
      a == Len(audios) + 1
      old == IF owns THEN v.currentAudio ELSE 0
      oldPlaying == old # 0 /\ Playing(old)
      au1 == Append(audios,
               [attached |-> req.attached, index |-> req.index, kind |-> "play",
                onplayIndex |-> req.index, url |-> r, paused |-> ~played,
                currentTime |-> 0, interrupted |-> FALSE,
                button |-> req.index])
  IN
  /\ r \in 1..Len(ttsRequests)
  /\ req.state = "pending"
  /\ Len(audios) < MaxClips
  /\ ttsRequests' = [ttsRequests EXCEPT ![r].state = "done"]
  /\ objectUrls' = objectUrls \cup {r}
  /\ audios' = IF old # 0 THEN PauseAudio(au1, old) ELSE au1
  /\ chatHistoryView' =
       IF ~owns THEN v
       ELSE [v EXCEPT !.audioUrl = r,
                      !.currentAudio = a,
                      !.pausedAt = IF oldPlaying THEN audios[old].currentTime
                                   ELSE 0,
                      !.playingIndex = IF played THEN req.index
                                       ELSE v.playingIndex,
                      !.autoPlayBlocked = IF played
                                          THEN v.autoPlayBlocked \ {req.index}
                                          ELSE v.autoPlayBlocked,
                      !.generatingTTSIndex = 0]
  /\ IF oldPlaying THEN isAnyAudioPlaying' = FALSE
     ELSE IF ~played THEN isAnyAudioPlaying' = FALSE
     ELSE IF old # 0 THEN isAnyAudioPlaying' \in BOOLEAN
     ELSE isAnyAudioPlaying' = TRUE
  /\ UNCHANGED NotHistory

\* the Replay button, rendered on every entry and enabled while audioUrl is
\* set; index is the entry whose button is pressed, which the handler does
\* not receive (button records it)
handleTTSReplay(index) ==
  LET v == chatHistoryView
      c == v.currentAudio
      a == Len(audios) + 1
      loads == v.audioUrl \in objectUrls
      au1 == IF c # 0
             THEN [audios EXCEPT ![c].paused = TRUE, ![c].currentTime = 0]
             ELSE audios
  IN
  /\ v.mounted
  /\ index \in Entries
  /\ v.audioUrl # 0
  /\ Len(audios) < MaxClips
  /\ audios' = Append(au1,
                 [attached |-> TRUE, index |-> v.playingIndex, kind |-> "replay",
                  onplayIndex |-> v.playingIndex, url |-> v.audioUrl,
                  paused |-> ~loads, currentTime |-> 0, interrupted |-> FALSE,
                  button |-> index])
  /\ chatHistoryView' =
       [v EXCEPT !.currentAudio = a, !.pausedAt = 0,
                 !.playingIndex = IF loads THEN v.playingIndex ELSE 0]
  /\ isAnyAudioPlaying' = IF c # 0 THEN FALSE ELSE isAnyAudioPlaying
  /\ UNCHANGED <<ttsRequests, objectUrls>>
  /\ UNCHANGED NotHistory

\* playback advances
AudioProgress(a) ==
  /\ a \in 1..Len(audios)
  /\ Playing(a)
  /\ audios[a].currentTime = 0
  /\ audios' = [audios EXCEPT ![a].currentTime = 1]
  /\ UNCHANGED <<isAnyAudioPlaying, chatHistoryView, ttsRequests, objectUrls>>
  /\ UNCHANGED NotHistory

\* playback reaches the end: the element pauses, then onpause and onended run
AudioEnded(a) ==
  /\ a \in 1..Len(audios)
  /\ Playing(a)
  /\ audios' = [audios EXCEPT ![a].paused = TRUE, ![a].currentTime = 1]
  /\ chatHistoryView' =
       IF ChatHistory_Owns(audios[a])
       THEN [chatHistoryView EXCEPT !.playingIndex = 0, !.pausedAt = 0]
       ELSE chatHistoryView
  /\ isAnyAudioPlaying' = IF SetsFlag(a) THEN FALSE ELSE isAnyAudioPlaying
  /\ objectUrls' = IF SetsFlag(a) THEN objectUrls \ {audios[a].url}
                   ELSE objectUrls
  /\ UNCHANGED ttsRequests
  /\ UNCHANGED NotHistory

NextChatHistory ==
  \/ \E index \in 1..MaxEntries : handleTTSPlay(index)
  \/ \E r \in 1..MaxSynth : TTSResolvesEmpty(r)
  \/ \E r \in 1..MaxSynth, played \in BOOLEAN : TTSResolvesAudio(r, played)
  \/ \E index \in 1..MaxEntries : handleTTSReplay(index)
  \/ \E a \in 1..MaxClips : AudioProgress(a)
  \/ \E a \in 1..MaxClips : AudioEnded(a)
  \/ \E tab \in Tabs : SetActiveTab(tab)
  \/ \E pdfFile \in BOOLEAN, txtFile \in BOOLEAN : handleUpload(pdfFile, txtFile)
  \/ \E u \in 1..MaxUploads : UploadSucceeds(u)
  \/ healthCheckResponse(TRUE)
  \/ \E n \in 0..MaxEntries : loadChatHistoryResponse(n)

\* ------------------------------------------------------------------------
\* Streaming QueryInput (src/unnamed/part_007): recording streamed over a
\* WebSocket, partial and final transcripts, silence detection, 20 s ceiling
\* ------------------------------------------------------------------------
\* what the backend transcribed so far: the first n words of the utterance;
\* the empty sequence is the empty string, which JavaScript takes for false
Transcript(n) == [i \in 1..n |-> i]
Transcripts == {Transcript(n) : n \in 1..MaxWords}

\* the JSON messages of the transcription socket: a field that is absent and
\* a field that is the empty string are the same to `if (data.partial)`
Messages == [partial : Transcripts \cup {<<>>}, final : Transcripts \cup {<<>>}]

\* what filled the field last: nothing, the keyboard, or a transcription
\* message (its kind, its text, and the partial messages shown before it)
NoInput == [kind |-> "none", text |-> <<>>, partials |-> 0]
TypedInput == [NoInput EXCEPT !.kind = "typed"]

\* useState and useRef initial values (0 stands for null); the refs name the
\* session whose recorder, context, socket or timer they hold; lastInput
\* records what filled the field last
FreshStreamingInput ==
  [mounted |-> TRUE, inputText |-> <<>>, isRecording |-> FALSE,
   isTranscribing |-> FALSE, mediaRecorderRef |-> 0, audioContextRef |-> 0,
   wsRef |-> 0, transcriptionTimeout |-> 0, silenceTimeoutRef |-> 0,
   lastInput |-> NoInput]

\* a call of startRecording: the stream and its tracks, the MediaRecorder and
\* its stop event, the socket, the AudioContext, the animation frame of
\* detectSilence, the two timers; alerted, stopRequested, timedOut and quiet
\* record what happened to the session
NewStream ==
  [gum |-> "pending", live |-> FALSE, recorder |-> "none", onstop |-> "none",
   socket |-> "none", ctx |-> "none", frame |-> "none",
   silenceTimer |-> "none", timeoutTimer |-> "none", alerted |-> FALSE,
   stopRequested |-> FALSE, timedOut |-> FALSE, quiet |-> FALSE]

\* the component is not on screen at first; one instance of it is followed
\* from its mount on, its closures and refs outliving its unmount
StreamInit ==
  /\ streamingInput = [FreshStreamingInput EXCEPT !.mounted = FALSE]
  /\ streams = <<>>

\* setIsRecording and setIsTranscribing: dropped once the instance is gone
SetStreamingFlags(si, rec, tr) ==
  IF si.mounted
  THEN [si EXCEPT !.isRecording = rec, !.isTranscribing = tr]
  ELSE si

\* clearTimeout(transcriptionTimeout.current)
ClearTranscriptionTimeout(ss, k) ==
  IF k # 0 /\ ss[k].timeoutTimer = "armed"
  THEN [ss EXCEPT ![k].timeoutTimer = "cleared"] ELSE ss

\* clearTimeout(silenceTimeoutRef.current)
ClearSilenceTimeout(ss, k) ==
  IF k # 0 /\ ss[k].silenceTimer = "armed"
  THEN [ss EXCEPT ![k].silenceTimer = "cleared"] ELSE ss

\* if (audioContextRef.current && state !== 'closed') close()
CloseAudioContext(ss, c) ==
  IF c # 0 /\ ss[c].ctx = "open"
  THEN [ss EXCEPT ![c].ctx = "closed"] ELSE ss

\* mediaRecorder.stop() on a recording recorder
StopStreamRecorder(ss, k) ==
  [ss EXCEPT ![k].recorder = "inactive", ![k].onstop = "queued"]

\* socket.close(): a socket that is still connecting fails and fires its
\* error event, an open one closes
CloseSocket(ss, k) ==
  IF ss[k].socket = "connecting" THEN [ss EXCEPT ![k].socket = "failing"]
  ELSE IF ss[k].socket = "open" THEN [ss EXCEPT ![k].socket = "closed"]
  ELSE ss

\* the parent renders the component
Streaming_mount ==
  /\ ~streamingInput.mounted
  /\ streams = <<>>
  /\ streamingInput' = FreshStreamingInput
  /\ UNCHANGED streams
  /\ UNCHANGED NotStreaming

\* the parent stops rendering it: the component has no cleanup effect
Streaming_unmount ==
  /\ streamingInput.mounted
  /\ streamingInput' = [streamingInput EXCEPT !.mounted = FALSE]
  /\ UNCHANGED streams
  /\ UNCHANGED NotStreaming

\* textarea onChange: the field is disabled while isTranscribing
Streaming_onChange(text) ==
  /\ streamingInput.mounted
  /\ ~streamingInput.isTranscribing
  /\ text # streamingInput.inputText
  /\ streamingInput' =
       [streamingInput EXCEPT !.inputText = text, !.lastInput = TypedInput]
  /\ UNCHANGED streams
  /\ UNCHANGED NotStreaming

\* handleSubmit / handleKeyDown: the text goes to onSubmit and the field is
\* emptied; the submit button is disabled while isTranscribing
Streaming_handleSubmit ==
  /\ streamingInput.mounted
  /\ streamingInput.inputText # <<>>
  /\ ~streamingInput.isTranscribing
  /\ streamingInput' =
       [streamingInput EXCEPT !.inputText = <<>>, !.lastInput = NoInput]
  /\ UNCHANGED streams
  /\ UNCHANGED NotStreaming

\* startRecording up to its await
Streaming_startRecording ==
  /\ Len(streams) < MaxStreams
  /\ streamingInput' = [streamingInput EXCEPT !.isTranscribing = TRUE]
  /\ streams' = Append(streams, NewStream)

\* stopRecording, on the streams ss: it works on what the refs hold
Streaming_stopRecording(ss) ==
  LET si == streamingInput
      m == si.mediaRecorderRef
      w == si.wsRef
      s1 == ClearSilenceTimeout(
              ClearTranscriptionTimeout(ss, si.transcriptionTimeout),
              si.silenceTimeoutRef)
      s2 == IF m # 0 /\ s1[m].recorder = "recording"
            THEN StopStreamRecorder(s1, m) ELSE s1
      s3 == IF w # 0 /\ s2[w].socket = "open"
            THEN [s2 EXCEPT ![w].socket = "closed"] ELSE s2
      s4 == CloseAudioContext(s3, si.audioContextRef)
      s5 == IF m # 0
            THEN [s4 EXCEPT ![m].live = FALSE, ![m].stopRequested = TRUE]
            ELSE s4
  IN /\ streams' = s5
     /\ streamingInput' = SetStreamingFlags(si, FALSE, FALSE)

\* handleMicClick: the button is disabled while isTranscribing
Streaming_handleMicClick ==
  /\ streamingInput.mounted
  /\ ~streamingInput.isTranscribing
  /\ IF streamingInput.isRecording \/ streamingInput.isTranscribing
     THEN Streaming_stopRecording(streams)
     ELSE Streaming_startRecording
  /\ UNCHANGED NotStreaming

\* getUserMedia resolves: recorder, context, first frame of detectSilence,
\* socket and the 20 s timer are set up; a MediaRecorder that cannot record
\* audio/webm throws and the catch block runs with the stream left live
Streaming_getUserMediaGranted(k) ==
  /\ k \in 1..Len(streams)
  /\ streams[k].gum = "pending"
  /\ IF mimeTypeSupported
     THEN /\ streams' = [streams EXCEPT ![k].gum = "granted",
                           ![k].live = TRUE, ![k].recorder = "inactive",
                           ![k].ctx = "open", ![k].frame = "scheduled",
                           ![k].socket = "connecting",
                           ![k].timeoutTimer = "armed"]
          /\ streamingInput' = [streamingInput EXCEPT
                                  !.mediaRecorderRef = k,
                                  !.audioContextRef = k, !.wsRef = k,
                                  !.transcriptionTimeout = k]
     ELSE /\ streams' = [streams EXCEPT ![k].gum = "granted",
                           ![k].live = TRUE, ![k].alerted = TRUE]
          /\ streamingInput' = SetStreamingFlags(streamingInput, FALSE, FALSE)
  /\ UNCHANGED NotStreaming

\* getUserMedia rejects: the catch block
Streaming_getUserMediaDenied(k) ==
  /\ k \in 1..Len(streams)
  /\ streams[k].gum = "pending"
  /\ streams' = [streams EXCEPT ![k].gum = "denied", ![k].alerted = TRUE]
  /\ streamingInput' = SetStreamingFlags(streamingInput, FALSE, FALSE)
  /\ UNCHANGED NotStreaming

\* detectSilence, run by the animation frame startRecording requested: the
\* isRecording it tests is the one of the render that called startRecording,
\* which is false, so no further frame is requested
Streaming_detectSilence(k, silent) ==
  LET r == streamingInput.silenceTimeoutRef IN
  /\ k \in 1..Len(streams)
  /\ streams[k].frame = "scheduled"
  /\ IF silent
     THEN IF r = 0
          THEN /\ streams' = [streams EXCEPT ![k].frame = "done",
                                             ![k].silenceTimer = "armed"]
               /\ streamingInput' =
                    [streamingInput EXCEPT !.silenceTimeoutRef = k]
          ELSE /\ streams' = [streams EXCEPT ![k].frame = "done"]
               /\ UNCHANGED streamingInput
     ELSE /\ streams' = [ClearSilenceTimeout(streams, r)
                           EXCEPT ![k].frame = "done"]
          /\ streamingInput' = [streamingInput EXCEPT !.silenceTimeoutRef = 0]
  /\ UNCHANGED NotStreaming

\* the 2 s timer detectSilence armed fires: stopRecording
Streaming_silenceTimeout(k) ==
  /\ k \in 1..Len(streams)
  /\ streams[k].silenceTimer = "armed"
  /\ Streaming_stopRecording([streams EXCEPT ![k].silenceTimer = "fired"])
  /\ UNCHANGED NotStreaming

\* the speaker has been silent for 2 s in the middle of the recording of
\* session k: a frame of detectSilence would have to see it, and none is
\* requested any more
Streaming_silence(k) ==
  /\ k \in 1..Len(streams)
  /\ streams[k].recorder = "recording"
  /\ streams[k].live
  /\ streams[k].frame = "done"
  /\ streams[k].silenceTimer # "armed"
  /\ ~streams[k].quiet
  /\ streams' = [streams EXCEPT ![k].quiet = TRUE]
  /\ UNCHANGED streamingInput
  /\ UNCHANGED NotStreaming

\* socket.onopen: mediaRecorder.start(250)
Streaming_onopen(k) ==
  /\ k \in 1..Len(streams)
  /\ streams[k].socket = "connecting"
  /\ streams' = [streams EXCEPT ![k].socket = "open",
                                ![k].recorder = "recording"]
  /\ streamingInput' = IF streamingInput.mounted
                       THEN [streamingInput EXCEPT !.isRecording = TRUE]
                       ELSE streamingInput
  /\ UNCHANGED NotStreaming

\* a recorder started on a stream whose tracks have all ended stops by itself
Streaming_tracksEnded(k) ==
  /\ k \in 1..Len(streams)
  /\ streams[k].recorder = "recording"
  /\ ~streams[k].live
  /\ streams' = StopStreamRecorder(streams, k)
  /\ UNCHANGED streamingInput
  /\ UNCHANGED NotStreaming

\* the input text with the concatenation of what arrived
Streaming_onmessageText_Appends(inputText, data) ==
  inputText \o data.partial \o data.final

\* socket.onmessage: the input text after the setInputText calls
Streaming_onmessageText(inputText, data) ==
  IF data.final # <<>> THEN data.final
  ELSE IF data.partial # <<>> THEN data.partial
  ELSE inputText

\* socket.onmessage: a final transcript ends the session; mediaRecorder.stop()
\* throws on an inactive recorder and the empty catch skips the rest
Streaming_onmessage(k, data) ==
  LET si == streamingInput
      text == Streaming_onmessageText(si.inputText, data)
      before == IF si.lastInput.kind = "partial"
                THEN si.lastInput.partials ELSE 0
      last == IF data.final # <<>>
              THEN [kind |-> "final", text |-> data.final,
                    partials |-> IF data.partial # <<>> /\ before < MaxWords
                                 THEN before + 1 ELSE before]
              ELSE IF data.partial # <<>>
              THEN [kind |-> "partial", text |-> data.partial,
                    partials |-> IF before < MaxWords
                                 THEN before + 1 ELSE before]
              ELSE si.lastInput
      shown == IF si.mounted
               THEN [si EXCEPT !.inputText = text, !.lastInput = last]
               ELSE si
      s1 == StopStreamRecorder(streams, k)
      s2 == [s1 EXCEPT ![k].live = FALSE]
      s3 == CloseSocket(s2, k)
  IN
  /\ k \in 1..Len(streams)
  /\ streams[k].socket = "open"
  /\ IF data.final # <<>>
     THEN /\ streamingInput' = SetStreamingFlags(shown, FALSE, FALSE)
          /\ streams' = IF streams[k].recorder = "recording"
                        THEN CloseAudioContext(s3, si.audioContextRef)
                        ELSE streams
     ELSE /\ streamingInput' = shown
          /\ UNCHANGED streams
  /\ UNCHANGED NotStreaming

\* socket.onerror: the alert, then the same teardown; mediaRecorder.stop()
\* throws on an inactive recorder and the rest of the handler is skipped
Streaming_onerror(k) ==
  LET failed == [streams EXCEPT ![k].socket = "closed", ![k].alerted = TRUE]
      s1 == StopStreamRecorder(failed, k)
      s2 == [s1 EXCEPT ![k].live = FALSE]
  IN
  /\ k \in 1..Len(streams)
  /\ streams[k].socket \in {"connecting", "open", "failing"}
  /\ streamingInput' = SetStreamingFlags(streamingInput, FALSE, FALSE)
  /\ streams' = IF streams[k].recorder = "recording"
                THEN CloseAudioContext(s2, streamingInput.audioContextRef)
                ELSE failed
  /\ UNCHANGED NotStreaming

\* mediaRecorder.onstop
Streaming_onstop(k) ==
  /\ k \in 1..Len(streams)
  /\ streams[k].onstop = "queued"
  /\ streams' = ClearSilenceTimeout(
                  CloseAudioContext([streams EXCEPT ![k].onstop = "done"],
                                    streamingInput.audioContextRef),
                  streamingInput.silenceTimeoutRef)
  /\ UNCHANGED streamingInput
  /\ UNCHANGED NotStreaming

\* the 20 s timer of startRecording fires; no handler of the session clears
\* it, so it also fires on a session that has ended, and timedOut records
\* that it ended a session whose socket was still in use
Streaming_transcriptionTimeout(k) ==
  LET fired == [streams EXCEPT ![k].timeoutTimer = "fired",
                               ![k].timedOut =
                                 streams[k].socket \in {"connecting", "open"}]
      s1 == IF fired[k].recorder = "recording"
            THEN StopStreamRecorder(fired, k) ELSE fired
      s2 == CloseSocket(s1, k)
      s3 == [s2 EXCEPT ![k].live = FALSE]
  IN
  /\ k \in 1..Len(streams)
  /\ streams[k].timeoutTimer = "armed"
  /\ streamingInput' = SetStreamingFlags(streamingInput, FALSE, FALSE)
  /\ streams' = CloseAudioContext(s3, streamingInput.audioContextRef)
  /\ UNCHANGED NotStreaming

NextStreaming ==
  \/ Streaming_mount
  \/ Streaming_unmount
  \/ \E text \in Transcripts \cup {<<>>} : Streaming_onChange(text)
  \/ Streaming_handleSubmit
  \/ Streaming_handleMicClick
  \/ \E k \in 1..MaxStreams : Streaming_getUserMediaGranted(k)
  \/ \E k \in 1..MaxStreams : Streaming_getUserMediaDenied(k)
  \/ \E k \in 1..MaxStreams, silent \in BOOLEAN : Streaming_detectSilence(k, silent)
  \/ \E k \in 1..MaxStreams : Streaming_silenceTimeout(k)
  \/ \E k \in 1..MaxStreams : Streaming_silence(k)
  \/ \E k \in 1..MaxStreams : Streaming_onopen(k)
  \/ \E k \in 1..MaxStreams : Streaming_tracksEnded(k)
  \/ \E k \in 1..MaxStreams, data \in Messages : Streaming_onmessage(k, data)
  \/ \E k \in 1..MaxStreams : Streaming_onerror(k)
  \/ \E k \in 1..MaxStreams : Streaming_onstop(k)
  \/ \E k \in 1..MaxStreams : Streaming_transcriptionTimeout(k)

\* ------------------------------------------------------------------------
\* AnswerSection (components/ChatHistory.js lines 235-534): the answer panel
\* that synthesizes the answer, plays the clip by itself and has a seek bar
\* ------------------------------------------------------------------------
\* useState and useRef initial values (0 stands for null); answer numbers the
\* answers the parent passed, audioUrlState and audioRef name a narration
FreshAnswerSection(answer) ==
  [mounted |-> TRUE, answer |-> answer, isPlayingTTS |-> FALSE,
   isGeneratingTTS |-> FALSE, audioUrlState |-> 0, audioProgress |-> 0,
   audioDuration |-> 0, audioRef |-> 0]

\* a call of handleGenerateTTS for an answer: its request, the object URL
\* and the Audio element made of the response, the 100 ms timer; blocked,
\* interacted and retried record what happened to its automatic playback
NewNarration(answer) ==
  [answer |-> answer, request |-> "pending", clip |-> "none",
   revoked |-> FALSE, paused |-> TRUE, currentTime |-> 0, timer |-> "none",
   blocked |-> FALSE, listening |-> FALSE, interacted |-> FALSE,
   retried |-> FALSE]

\* nothing is rendered before there is an answer; one instance of the panel
\* is followed from its mount on
AnswerInit ==
  /\ answerSection = [FreshAnswerSection(0) EXCEPT !.mounted = FALSE]
  /\ narrations = <<>>
  /\ window = [currentlyPlayingAudio |-> 0, hintShown |-> FALSE]

\* audio.play() where the browser lets it start: a clip whose source is gone
\* does not start, an ended one starts over
PlayClip(ns, r) ==
  IF ns[r].clip \in {"loading", "ready"}
  THEN [ns EXCEPT ![r].paused = FALSE,
                  ![r].currentTime = IF ns[r].currentTime = MaxPosition
                                     THEN 0 ELSE ns[r].currentTime]
  ELSE ns

\* audio.pause()
PauseClip(ns, r) == IF r # 0 THEN [ns EXCEPT ![r].paused = TRUE] ELSE ns

\* the play and pause listeners of the clips that started or stopped between
\* ns and ms: setIsPlayingTTS, dropped once the panel is gone
ClipEvents(as, ns, ms) ==
  IF ~as.mounted THEN as
  ELSE IF \E r \in DOMAIN ns : ns[r].paused /\ ~ms[r].paused
  THEN [as EXCEPT !.isPlayingTTS = TRUE]
  ELSE IF \E r \in DOMAIN ns : ~ns[r].paused /\ ms[r].paused
  THEN [as EXCEPT !.isPlayingTTS = FALSE]
  ELSE as

\* tryPlay without the listeners of its catch block
AnswerSection_tryPlay_NoRetry(ns, r, allowed) ==
  LET loaded == [ns EXCEPT ![r].paused = TRUE, ![r].currentTime = 0,
                           ![r].clip = IF ns[r].revoked THEN "broken"
                                       ELSE "ready"]
  IN IF loaded[r].clip = "broken" THEN loaded
     ELSE IF allowed THEN PlayClip(loaded, r)
     ELSE [loaded EXCEPT ![r].blocked = TRUE]

\* tryPlay: audio.load(), audio.play(), and in the catch of a rejected play
\* the click and keydown listeners that retry; load() of a revoked object
\* URL fails, and play() then rejects as well
AnswerSection_tryPlay(ns, r, allowed) ==
  LET loaded == [ns EXCEPT ![r].paused = TRUE, ![r].currentTime = 0,
                           ![r].clip = IF ns[r].revoked THEN "broken"
                                       ELSE "ready"]
  IN IF loaded[r].clip = "broken" THEN [loaded EXCEPT ![r].listening = TRUE]
     ELSE IF allowed THEN PlayClip(loaded, r)
     ELSE [loaded EXCEPT ![r].blocked = TRUE, ![r].listening = TRUE]

\* a click or a key press reaches window: every onUserInteract that is
\* registered plays its clip and removes itself
onUserInteract(ns) ==
  [r \in DOMAIN ns |->
     LET seen == [ns EXCEPT ![r].interacted = ns[r].blocked]
     IN IF ns[r].listening
        THEN [PlayClip(seen, r)[r] EXCEPT !.listening = FALSE,
                                          !.retried = TRUE]
        ELSE seen[r]]

\* handleGenerateTTS up to its await, from the panel state as and the
\* narrations ns
AnswerSection_generate(as, ns) ==
  /\ Len(ns) < MaxNarrations
  /\ answerSection' = [as EXCEPT !.isGeneratingTTS = TRUE]
  /\ narrations' = Append(ns, NewNarration(as.answer))

\* the parent renders the panel for its first answer: the effects of the
\* first render, of which the last one calls handleGenerateTTS (autoPlay)
AnswerSection_mount ==
  /\ ~answerSection.mounted
  /\ narrations = <<>>
  /\ AnswerSection_generate(FreshAnswerSection(1), narrations)
  /\ UNCHANGED window
  /\ UNCHANGED NotAnswer

\* the parent stops rendering the panel: the cleanup of the audioUrlState
\* effect pauses the clip it made
AnswerSection_unmount ==
  LET as == answerSection
      u == as.audioUrlState
  IN
  /\ as.mounted
  /\ answerSection' = [as EXCEPT !.mounted = FALSE,
                                 !.audioRef = IF u # 0 THEN 0 ELSE as.audioRef]
  /\ narrations' = PauseClip(narrations, u)
  /\ window' = IF u # 0 /\ window.currentlyPlayingAudio = u
               THEN [window EXCEPT !.currentlyPlayingAudio = 0] ELSE window
  /\ UNCHANGED NotAnswer

\* the parent passes the next answer: the cleanup-on-answer-change effect,
\* the auto-play effect with the audioUrlState and isGeneratingTTS of that
\* render, then the cleanup of the audioUrlState effect
AnswerSection_answerChanges ==
  LET as == answerSection
      u == as.audioUrlState
      n1 == PauseClip(narrations, as.audioRef)
      n2 == IF u # 0 THEN [PauseClip(n1, u) EXCEPT ![u].revoked = TRUE]
            ELSE n1
      cleaned == [ClipEvents(as, narrations, n2) EXCEPT
                    !.answer = as.answer + 1, !.audioRef = 0,
                    !.audioUrlState = 0, !.audioProgress = 0,
                    !.audioDuration = 0, !.isPlayingTTS = FALSE]
  IN
  /\ as.mounted
  /\ as.answer < MaxAnswers
  /\ (u = 0 /\ ~as.isGeneratingTTS) => Len(narrations) < MaxNarrations
  /\ IF u = 0 /\ ~as.isGeneratingTTS
     THEN /\ answerSection' = [cleaned EXCEPT !.isGeneratingTTS = TRUE]
          /\ narrations' = Append(n2, NewNarration(as.answer + 1))
     ELSE /\ answerSection' = cleaned
          /\ narrations' = n2
  /\ window' = IF u # 0 /\ window.currentlyPlayingAudio = u
               THEN [window EXCEPT !.currentlyPlayingAudio = 0] ELSE window
  /\ UNCHANGED NotAnswer

\* onGenerateTTS resolves without audio (App.handleGenerateTTS turns a
\* failure into null)
AnswerSection_ttsEmpty(r) ==
  /\ r \in 1..Len(narrations)
  /\ narrations[r].request = "pending"
  /\ narrations' = [narrations EXCEPT ![r].request = "none"]
  /\ answerSection' = IF answerSection.mounted
                      THEN [answerSection EXCEPT !.isGeneratingTTS = FALSE]
                      ELSE answerSection
  /\ UNCHANGED window
  /\ UNCHANGED NotAnswer

\* onGenerateTTS resolves with audio: the object URL, setAudioUrl, the
\* 100 ms timer, and the audioUrlState effect that makes the Audio element
AnswerSection_ttsAudio(r) ==
  LET as == answerSection
      c == window.currentlyPlayingAudio
      n1 == [narrations EXCEPT ![r].request = "audio", ![r].timer = "armed"]
      n2 == [PauseClip(PauseClip(n1, c), as.audioRef)
               EXCEPT ![r].clip = "loading"]
  IN
  /\ r \in 1..Len(narrations)
  /\ narrations[r].request = "pending"
  /\ IF as.mounted
     THEN /\ narrations' = n2
          /\ answerSection' =
               [ClipEvents(as, narrations, n2) EXCEPT
                  !.isGeneratingTTS = FALSE, !.audioUrlState = r,
                  !.audioRef = r]
          /\ window' = [window EXCEPT !.currentlyPlayingAudio = r]
     ELSE /\ narrations' = n1
          /\ UNCHANGED <<answerSection, window>>
  /\ UNCHANGED NotAnswer

\* loadedmetadata on the clip: tryPlay, the browser allowing the automatic
\* start or not
AnswerSection_loadedmetadata(r, allowed) ==
  LET ms == AnswerSection_tryPlay(narrations, r, allowed) IN
  /\ r \in 1..Len(narrations)
  /\ narrations[r].clip = "loading"
  /\ narrations' = ms
  /\ answerSection' =
       IF answerSection.mounted /\ ~ms[r].paused
       THEN [answerSection EXCEPT !.isPlayingTTS = TRUE]
       ELSE answerSection
  /\ window' = IF ms[r].listening
               THEN [window EXCEPT !.hintShown = TRUE] ELSE window
  /\ UNCHANGED NotAnswer

\* the 100 ms timer of handleGenerateTTS: audioRef.current.play(), the
\* browser allowing the start or not
AnswerSection_timer(r, allowed) ==
  LET a == answerSection.audioRef
      ms == IF a # 0 /\ allowed
            THEN PlayClip([narrations EXCEPT ![r].timer = "done"], a)
            ELSE [narrations EXCEPT ![r].timer = "done"]
  IN
  /\ r \in 1..Len(narrations)
  /\ narrations[r].timer = "armed"
  /\ narrations' = ms
  /\ answerSection' = ClipEvents(answerSection, narrations, ms)
  /\ UNCHANGED window
  /\ UNCHANGED NotAnswer

\* the Play button: handleGenerateTTS while there is no clip, else
\* handlePlayPause; the click then reaches window
AnswerSection_handlePlayPause ==
  LET as == answerSection
      a == as.audioRef
      toggled == IF a = 0 THEN narrations
                 ELSE IF narrations[a].paused THEN PlayClip(narrations, a)
                 ELSE PauseClip(narrations, a)
      ms == onUserInteract(toggled)
  IN
  /\ as.mounted
  /\ ~as.isGeneratingTTS
  /\ IF as.audioUrlState = 0
     THEN AnswerSection_generate(
            ClipEvents(as, narrations, onUserInteract(narrations)),
            onUserInteract(narrations))
     ELSE /\ narrations' = ms
          /\ answerSection' = ClipEvents(as, narrations, ms)
  /\ UNCHANGED window
  /\ UNCHANGED NotAnswer

\* the Replay button
AnswerSection_replay ==
  LET as == answerSection
      a == as.audioRef
      ms == onUserInteract(
              IF a = 0 THEN narrations
              ELSE PlayClip([narrations EXCEPT ![a].currentTime = 0], a))
  IN
  /\ as.mounted
  /\ as.audioUrlState # 0
  /\ narrations' = ms
  /\ answerSection' = ClipEvents(as, narrations, ms)
  /\ UNCHANGED window
  /\ UNCHANGED NotAnswer

\* handleSeek: a click on the bar at position seekTime, short of its right
\* end; the seek fires timeupdate, and the click then reaches window
AnswerSection_handleSeek(seekTime) ==
  LET as == answerSection
      a == as.audioRef
      seeks == a # 0 /\ as.audioDuration # 0
      moved == [narrations EXCEPT ![a].currentTime = seekTime]
      sought == IF ~seeks THEN narrations
                ELSE IF as.isPlayingTTS THEN PlayClip(moved, a)
                ELSE moved
      ms == onUserInteract(sought)
      shown == IF seeks THEN [as EXCEPT !.audioProgress = seekTime] ELSE as
  IN
  /\ as.mounted
  /\ as.audioUrlState # 0
  /\ narrations' = ms
  /\ answerSection' = ClipEvents(shown, narrations, ms)
  /\ UNCHANGED window
  /\ UNCHANGED NotAnswer

\* a click elsewhere on the page, or a key press
AnswerSection_userInteracts ==
  LET ms == onUserInteract(narrations) IN
  /\ \E r \in 1..Len(narrations) : narrations[r].listening
  /\ narrations' = ms
  /\ answerSection' = ClipEvents(answerSection, narrations, ms)
  /\ UNCHANGED window
  /\ UNCHANGED NotAnswer

\* playback advances: the timeupdate listener; at the end of the clip the
\* element pauses, and the pause and ended listeners run
AnswerSection_timeupdate(r) ==
  LET t == narrations[r].currentTime + 1
      ms == [narrations EXCEPT ![r].currentTime = t,
                               ![r].paused = (t = MaxPosition)]
  IN
  /\ r \in 1..Len(narrations)
  /\ narrations[r].clip = "ready"
  /\ ~narrations[r].paused
  /\ narrations[r].currentTime < MaxPosition
  /\ narrations' = ms
  /\ answerSection' =
       IF answerSection.mounted
       THEN [ClipEvents(answerSection, narrations, ms) EXCEPT
               !.audioProgress = t, !.audioDuration = MaxPosition]
       ELSE answerSection
  /\ UNCHANGED window
  /\ UNCHANGED NotAnswer

NextAnswerSection ==
  \/ AnswerSection_mount
  \/ AnswerSection_unmount
  \/ AnswerSection_answerChanges
  \/ \E r \in 1..MaxNarrations : AnswerSection_ttsEmpty(r)
  \/ \E r \in 1..MaxNarrations : AnswerSection_ttsAudio(r)
  \/ \E r \in 1..MaxNarrations, allowed \in BOOLEAN :
       AnswerSection_loadedmetadata(r, allowed)
  \/ \E r \in 1..MaxNarrations, allowed \in BOOLEAN :
       AnswerSection_timer(r, allowed)
  \/ AnswerSection_handlePlayPause
  \/ AnswerSection_replay
  \/ \E seekTime \in 0..(MaxPosition - 1) : AnswerSection_handleSeek(seekTime)
  \/ AnswerSection_userInteracts
  \/ \E r \in 1..MaxNarrations : AnswerSection_timeupdate(r)

\* ------------------------------------------------------------------------
\* Specification of the App: upload, tabs, query submission
\* ------------------------------------------------------------------------
InitRecording == AppInit /\ RecInit /\ HistInit /\ StreamInit /\ AnswerInit

Init == InitRecording /\ mimeTypeSupported = TRUE

Next ==
  \/ \E available \in BOOLEAN : healthCheckResponse(available)
  \/ checkApiAvailability
  \/ \E n \in 0..MaxEntries : loadChatHistoryResponse(n)
  \/ \E tab \in Tabs : SetActiveTab(tab)
  \/ \E pdfFile \in BOOLEAN, txtFile \in BOOLEAN : handleUpload(pdfFile, txtFile)
  \/ \E u \in 1..MaxUploads : UploadSucceeds(u)
  \/ \E u \in 1..MaxUploads : UploadFails(u)
  \/ \E t \in Texts : handleSubmit(t)
  \/ \E i \in 1..MaxQueries, out \in QueryOutcomes : QueryResponse(i, out)
  \/ \E i \in 1..MaxQueries, out \in TTSOutcomes : TTSResponse(i, out)

Spec == Init /\ [][Next]_vars

\* ------------------------------------------------------------------------
\* Specification of batch recording in QueryInput
\* ------------------------------------------------------------------------
SpecQueryInput == InitRecording /\ [][NextQueryInput]_vars

\* ------------------------------------------------------------------------
\* Specification of batch recording in MicrophoneButton
\* ------------------------------------------------------------------------
SpecMicrophoneButton ==
  InitRecording /\ [][NextMicrophoneButton]_vars

\* ------------------------------------------------------------------------
\* Specification of streaming recording in QueryInput
\* ------------------------------------------------------------------------
SpecStreaming == InitRecording /\ [][NextStreaming]_vars

\* ------------------------------------------------------------------------
\* Specification of the transcripts of streaming recording: sessions that
\* get the microphone, whose socket opens, and that end by a final
\* transcript, a socket error or the 20 s timer
\* ------------------------------------------------------------------------
NextTranscript ==
  \/ Streaming_mount
  \/ Streaming_unmount
  \/ Streaming_handleSubmit
  \/ Streaming_handleMicClick
  \/ \E k \in 1..MaxStreams : Streaming_getUserMediaGranted(k)
  \/ \E k \in 1..MaxStreams : Streaming_onopen(k)
  \/ \E k \in 1..MaxStreams, data \in Messages : Streaming_onmessage(k, data)
  \/ \E k \in 1..MaxStreams : Streaming_onerror(k)
  \/ \E k \in 1..MaxStreams : Streaming_transcriptionTimeout(k)

SpecTranscript == Init /\ [][NextTranscript]_vars

\* ------------------------------------------------------------------------
\* Specification of narration in the answer panel
\* ------------------------------------------------------------------------
SpecAnswerSection == Init /\ [][NextAnswerSection]_vars

\* ------------------------------------------------------------------------
\* Specification of upload: start-up, the file uploader, the tabs, and the
\* questions asked once the chat tab is unlocked, which the backend answers
\* ------------------------------------------------------------------------
NextUpload ==
  \/ \E available \in BOOLEAN : healthCheckResponse(available)
  \/ checkApiAvailability
  \/ \E n \in 0..MaxEntries : loadChatHistoryResponse(n)
  \/ \E tab \in Tabs : SetActiveTab(tab)
  \/ \E pdfFile \in BOOLEAN, txtFile \in BOOLEAN : handleUpload(pdfFile, txtFile)
  \/ \E u \in 1..MaxUploads : UploadSucceeds(u)
  \/ \E u \in 1..MaxUploads : UploadFails(u)
  \/ handleSubmit(<<"L">>)
  \/ \E i \in 1..MaxQueries : QueryResponse(i, "ok")
  \/ \E i \in 1..MaxQueries : TTSResponse(i, "audio")

SpecUpload == Init /\ [][NextUpload]_vars

\* ------------------------------------------------------------------------
\* Specification of narration in the chat-history view
\* ------------------------------------------------------------------------
SpecChatHistory == Init /\ [][NextChatHistory]_vars

\* ------------------------------------------------------------------------
\* Specification of input validation: the same App, a user who uploads one
\* PDF, questions of up to MaxInputLen characters and a backend that answers
\* every query
\* ------------------------------------------------------------------------
\* FileUploader with a PDF selected, used once
handleUploadPdf == uploads = <<>> /\ handleUpload(TRUE, FALSE)

NextInput ==
  \/ healthCheckResponse(TRUE)
  \/ handleUploadPdf
  \/ \E u \in 1..MaxUploads : UploadSucceeds(u)
  \/ \E t \in InputTexts : handleSubmit(t)
  \/ \E i \in 1..MaxQueries : QueryResponse(i, "ok")
  \/ \E i \in 1..MaxQueries : TTSResponse(i, "audio")

SpecInput == Init /\ [][NextInput]_vars

\* ------------------------------------------------------------------------
\* Specification of the outcomes of a question: one document is uploaded,
\* English questions are asked, and each of the two requests of a question
\* ends in any of its outcomes, in any order
\* ------------------------------------------------------------------------
NextOutcome ==
  \/ healthCheckResponse(TRUE)
  \/ handleUploadPdf
  \/ \E u \in 1..MaxUploads : UploadSucceeds(u)
  \/ handleSubmit(<<"L">>)
  \/ \E i \in 1..MaxQueries, out \in QueryOutcomes : QueryResponse(i, out)
  \/ \E i \in 1..MaxQueries, out \in TTSOutcomes : TTSResponse(i, out)

SpecOutcome == Init /\ [][NextOutcome]_vars

\* ------------------------------------------------------------------------
\* Specification of overlapping uploads: the user changes the selection
\* while an upload is unanswered, up to MaxOverlap uploads in all
\* ------------------------------------------------------------------------
\* FileUploader: the auto-upload effect runs again whenever the selection
\* changes, whether or not an earlier upload is still unanswered
handleUploadAgain(pdfFile, txtFile) ==
  /\ isApiAvailable = "true"
  /\ activeTab = "upload"
  /\ pdfFile \/ txtFile
  /\ ~isLoading
  /\ handleFileUploadUpTo(MaxOverlap, pdfFile, txtFile)

NextOverlap ==
  \/ \E available \in BOOLEAN : healthCheckResponse(available)
  \/ checkApiAvailability
  \/ \E n \in 0..MaxEntries : loadChatHistoryResponse(n)
  \/ \E tab \in Tabs : SetActiveTab(tab)
  \/ \E pdfFile \in BOOLEAN, txtFile \in BOOLEAN :
       handleUploadAgain(pdfFile, txtFile)
  \/ \E u \in 1..MaxOverlap : UploadSucceeds(u)
  \/ \E u \in 1..MaxOverlap : UploadFails(u)

SpecOverlap == Init /\ [][NextOverlap]_vars

\* ------------------------------------------------------------------------
\* Properties of query submission
\* ------------------------------------------------------------------------
LastQuery == Len(queries)

Issued(i) == queries[i].textReq # "none" /\ queries[i].ttsReq # "none"

OnlyDevanagari(t) == t # <<>> /\ \A k \in 1..Len(t) : t[k] = "D"

\* C1: for q1 then q2, q2 submitted while q1's answer was still pending: once
\* q2's answer has resolved the current answer is q2's reply, and it is never
\* q1's reply.
C1_LastSubmissionWins ==
  \A j \in 1..Len(queries) : \A i \in queries[j].overtook :
    /\ currentAnswer # ReplyOf(i)
    /\ (j = LastQuery /\ queries[j].textReq = "ok") => currentAnswer = ReplyOf(j)

\* C4: when the answer request of the latest query succeeded and its TTS
\* request failed, the current answer is the reply text and no clip is attached.
C4_AnswerShownWhenTTSFails ==
  (LastQuery > 0 /\ queries[LastQuery].textReq = "ok"
     /\ queries[LastQuery].ttsReq \in {"error", "fail"})
  => (currentAnswer = ReplyOf(LastQuery) /\ audioUrl = 0)

\* C5: a question with a character outside Devanagari and Latin is rejected
\* locally: the language warning is set and neither /query nor /tts is issued.
C5_ForeignScriptRejected ==
  \A i \in 1..Len(queries) :
    HasChar(queries[i].text, "C") =>
      /\ queries[i].handler = "rejected"
      /\ queries[i].textReq = "none" /\ queries[i].ttsReq = "none"
      /\ i = LastQuery => langWarning = LangWarningMsg

\* C6: a non-empty question of Devanagari characters only is accepted: the
\* language warning is cleared and the answer and TTS requests are issued for
\* that text.
C6_DevanagariAccepted ==
  \A i \in 1..Len(queries) :
    OnlyDevanagari(queries[i].text) =>
      /\ queries[i].handler # "rejected"
      /\ Issued(i)
      /\ queries[i].body.input_text = queries[i].text
      /\ queries[i].tts.text = queries[i].text
      /\ i = LastQuery => langWarning = ""

\* a Devanagari question submitted right after a rejected one, its requests
\* in flight
C6_Witness ==
  /\ Len(queries) = 2
  /\ queries[1].handler = "rejected"
  /\ OnlyDevanagari(queries[2].text) /\ Len(queries[2].text) = MaxInputLen
  /\ queries[2].textReq = "pending" /\ queries[2].ttsReq = "pending"
  /\ langWarning = ""

\* C7: every /query request issued after a successful upload carries that
\* upload's model_key in its model_key field.
C7_ModelKeyThreaded ==
  \A i \in 1..Len(queries) :
    (Issued(i) /\ queries[i].uploadKey # 0) =>
      queries[i].body.model_key = queries[i].uploadKey

\* C10: the answer of the latest query is displayed as soon as its answer
\* request has resolved, also while its TTS request is still pending.
C10_AnswerShownBeforeTTS ==
  (LastQuery > 0 /\ queries[LastQuery].textReq = "ok"
     /\ queries[LastQuery].ttsReq = "pending")
  => currentAnswer = ReplyOf(LastQuery)

\* ------------------------------------------------------------------------
\* Properties of microphone capture
\* ------------------------------------------------------------------------
Streams == {k \in 1..Len(sessions) : sessions[k].gum = "granted"}

\* the session records: its MediaRecorder is recording from a live stream
HoldsMicrophone(k) == sessions[k].live /\ sessions[k].recorder = "recording"

\* C3: after stopRecording every track of the captured stream has been
\* stopped, and no track is ever stopped more than once.
C3_StopReleasesMicrophone ==
  \A k \in Streams :
    /\ sessions[k].stopCalls <= 1
    /\ sessions[k].stopRequested => (~sessions[k].live /\ sessions[k].stopCalls = 1)

\* C8: no path leaves a live stream that nothing can stop any more: a live
\* stream is the stream of the recorder the mounted component refers to.
C8_LiveStreamStoppable ==
  \A k \in Streams :
    sessions[k].live =>
      /\ queryInput.mounted
      /\ sessions[k].attached
      /\ queryInput.mediaRecorderRef = k

\* C9: at any time at most one session holds the microphone.
C9_SingleRecordingSession ==
  Cardinality({k \in Streams : HoldsMicrophone(k)}) <= 1

\* ------------------------------------------------------------------------
\* Properties of narration in the chat-history view
\* ------------------------------------------------------------------------
\* C2: while the chat-history view is shown, at every moment at most one
\* audio clip is in the Playing state.
C2_SingleClipPlaying ==
  chatHistoryView.mounted =>
    Cardinality({a \in 1..Len(audios) : Playing(a)}) <= 1

\* C11: while the history view is hidden (another tab is shown), no clip of
\* the view is in the Playing state, a clip whose synthesis was in flight at
\* the moment of the switch included.
C11_NoClipPlaysWhileHidden ==
  activeTab # "history" => \A a \in 1..Len(audios) : ~Playing(a)

\* the view still holds clip a at the position it was paused at
Retained(a) ==
  /\ chatHistoryView.currentAudio = a
  /\ chatHistoryView.pausedAt = audios[a].currentTime

\* C12: when play is requested for entry B while entry A's clip is Playing,
\* A's clip is paused before B's clip starts and its playback position is
\* kept: until B's clip exists, the view on screen holds A's clip at the
\* position it was paused at.
C12_InterruptedClipKeepsPosition ==
  \A a \in 1..Len(audios) :
    (audios[a].interrupted /\ ChatHistory_Owns(audios[a]) /\ a = Len(audios))
      => (~Playing(a) /\ Retained(a))

\* C13: a control of an entry that does not own the current clip leaves
\* playback unchanged: every clip that Replay started was started from the
\* button of the entry whose synthesis produced the clip.
C13_ReplayOnlyByOwner ==
  \A a \in 1..Len(audios) :
    audios[a].kind = "replay" =>
      audios[a].button = ttsRequests[audios[a].url].index

\* C14: in streaming transcription a partial or final transcript replaces the
\* input text: whenever a transcription message was the last thing to fill
\* the field, the field holds exactly that message's text (after partials
\* p1..pn and a final f it holds f, never a concatenation).
C14_TranscriptReplacesText ==
  streamingInput.lastInput.kind \in {"partial", "final"} =>
    streamingInput.inputText = streamingInput.lastInput.text

\* a final transcript arrived after MaxWords partial ones and fills the field
C14_Witness ==
  /\ streamingInput.lastInput.kind = "final"
  /\ streamingInput.lastInput.partials = MaxWords
  /\ streamingInput.inputText = Transcript(MaxWords)

\* C15: a streaming session ended by the 20 s timer is ended as a failure:
\* its socket is closed (or failing, when it was still connecting), its
\* tracks are stopped, the flags of the component are cleared as long as no
\* newer session was started, and the user was given a signal (the only one
\* this component has is an alert); the signal of a socket that was still
\* connecting comes with its error event and is waited for.
C15_TimeoutEndsSessionAsFailure ==
  \A k \in 1..Len(streams) :
    streams[k].timedOut =>
      /\ streams[k].socket \in {"closed", "failing"}
      /\ ~streams[k].live
      /\ (k = Len(streams) /\ streamingInput.mounted) =>
            (~streamingInput.isRecording /\ ~streamingInput.isTranscribing)
      /\ streams[k].socket # "failing" => streams[k].alerted

\* C16: when the speaker has been silent for 2 s at some point of a streaming
\* recording, stopRecording has been called for that recording.
C16_SilenceStopsRecording ==
  \A k \in 1..Len(streams) :
    streams[k].quiet => streams[k].stopRequested

\* C17: a clip of the answer panel whose automatic start the browser blocked
\* has been played again by the first click or key press that followed, and
\* no synthesis was requested for its answer after it.
C17_BlockedClipRetriedOnInteraction ==
  \A r \in 1..Len(narrations) :
    (narrations[r].blocked /\ narrations[r].interacted) =>
      /\ narrations[r].retried
      /\ \A q \in 1..Len(narrations) :
           q > r => narrations[q].answer # narrations[r].answer

\* a blocked clip that a click or key press started, its panel still showing
\* it and nothing else requested
C17_Witness ==
  /\ Len(narrations) = 1
  /\ answerSection.mounted /\ answerSection.audioRef = 1
  /\ narrations[1].blocked /\ narrations[1].interacted
  /\ narrations[1].retried /\ ~narrations[1].listening
  /\ ~narrations[1].paused
  /\ answerSection.isPlayingTTS

\* C18: a click on the seek bar of the answer panel moves the loaded clip to
\* the position clicked and leaves it playing if it was playing, paused if
\* it was paused.
C18_SeekKeepsPlayState ==
  [][\A seekTime \in 0..(MaxPosition - 1) :
       (/\ AnswerSection_handleSeek(seekTime)
        /\ answerSection.audioRef # 0
        /\ narrations[answerSection.audioRef].clip = "ready")
       => /\ narrations'[answerSection.audioRef].currentTime = seekTime
          /\ narrations'[answerSection.audioRef].paused =
               narrations[answerSection.audioRef].paused]_vars

\* C19: when the /query/ request of the latest submission was rejected with
\* HTTP 429, the answer shown is the rate-limit message (the submission has
\* that one /query/ request and no other).
C19_RateLimitMessageShown ==
  (LastQuery > 0 /\ queries[LastQuery].textReq = "rate")
  => currentAnswer = ErrorAnswer(RateLimitedMsg)

\* C20: once both requests of a query are answered and the answer request
\* succeeded, the chat history has the entry of that query, with its question
\* and its reply, whatever the TTS request returned.
C20_AnsweredQueryInHistory ==
  \A i \in 1..Len(queries) :
    (queries[i].textReq = "ok" /\ queries[i].ttsReq # "pending") =>
      \E e \in 1..Len(chatHistory) :
        /\ chatHistory[e].user = queries[i].text
        /\ chatHistory[e].assistant = ReplyOf(i)

\* ------------------------------------------------------------------------
\* Properties of upload
\* ------------------------------------------------------------------------
\* C21: an upload with only a TXT file sends a form with the txt_file part
\* and no pdf_file part, and the step in which its response arrives stores
\* the returned model_key, sets ragInitialized and makes chat the active tab.
C21_TxtOnlyUpload ==
  [][\A u \in 1..MaxUploads :
       (/\ UploadSucceeds(u)
        /\ uploads[u].txt /\ ~uploads[u].pdf)
       => /\ uploads[u].form = {"txt_file"}
          /\ modelKey' = u
          /\ ragInitialized'
          /\ activeTab' = "chat"]_vars

\* a TXT-only upload has succeeded
C21_Witness ==
  /\ Len(uploads) >= 1
  /\ uploads[1].txt /\ ~uploads[1].pdf
  /\ uploads[1].state = "ok"
  /\ uploadedFiles = [pdf |-> FALSE, txt |-> TRUE]
  /\ modelKey = 1 /\ ragInitialized /\ activeTab = "chat"


\* ------------------------------------------------------------------------
\* Properties of the outcomes of a question
\* ------------------------------------------------------------------------
\* C22: when the answer request of a question fails while its synthesis
\* request succeeds or is still unanswered, the step that handles the failure
\* displays the error message of the answer request and leaves no clip
\* attached, and the synthesis response that arrives after the failure changes
\* neither the displayed answer nor the attached clip.
C22_OnlyTextErrorSurfaced ==
  [][\A i \in 1..MaxQueries :
       /\ \A out \in QueryOutcomes \ {"ok"} :
            (/\ QueryResponse(i, out)
             /\ queries[i].handler = "awaiting"
             /\ queries[i].ttsReq \in {"audio", "pending"})
            => /\ currentAnswer' = ErrorAnswer(queryError(out))
               /\ audioUrl' = 0
               /\ i \notin liveUrls'
       /\ (/\ TTSResponse(i, "audio")
           /\ queries[i].handler = "failed")
          => /\ UNCHANGED <<currentAnswer, audioUrl, liveUrls>>
             /\ i \notin liveUrls']_vars

\* the answer request of the latest question failed, its synthesis request
\* returned audio, and the error is displayed without a clip
C22_Witness ==
  /\ Len(queries) = MaxQueries
  /\ queries[LastQuery].textReq = "rate"
  /\ queries[LastQuery].ttsReq = "audio"
  /\ queries[LastQuery].handler = "failed"
  /\ currentAnswer = ErrorAnswer(RateLimitedMsg)
  /\ audioUrl = 0

\* ------------------------------------------------------------------------
\* Properties of the streaming question field: stopping
\* ------------------------------------------------------------------------
\* C23: while a streaming session of the mounted question field is requesting
\* the microphone or recording, the microphone button, which is the user's
\* stop action, is enabled: the button is rendered with
\* disabled={isTranscribing}.
C23_StopAlwaysEnabled ==
  \A k \in 1..Len(streams) :
    (/\ streamingInput.mounted
     /\ \/ streams[k].gum = "pending"
        \/ streams[k].recorder = "recording")
    => ~streamingInput.isTranscribing

\* ------------------------------------------------------------------------
\* Properties of the chat-history view: pause and resume
\* ------------------------------------------------------------------------
\* C24: pressing play on the entry whose clip is playing pauses that clip
\* where it is: the clip stays the view's current audio, the view remembers
\* its position, and no synthesis is requested.
C24_PlayOnPlayingEntryPauses ==
  [][\A index \in 1..MaxEntries :
       (/\ handleTTSPlay(index)
        /\ chatHistoryView.playingIndex = index
        /\ chatHistoryView.currentAudio # 0
        /\ Playing(chatHistoryView.currentAudio)
        /\ audios[chatHistoryView.currentAudio].index = index)
       => /\ ttsRequests' = ttsRequests
          /\ chatHistoryView'.currentAudio = chatHistoryView.currentAudio
          /\ chatHistoryView'.pausedAt =
               audios[chatHistoryView.currentAudio].currentTime]_vars

\* ------------------------------------------------------------------------
\* Properties of the answer panel: narration of the displayed answer
\* ------------------------------------------------------------------------
\* C25: the answer panel has requested a synthesis for the answer it shows
\* (autoPlay is on), whatever the previous answer's clip or request was doing
\* when the answer changed.
C25_NewAnswerIsNarrated ==
  answerSection.mounted =>
    \E r \in 1..Len(narrations) : narrations[r].answer = answerSection.answer

\* C26: the clip attached to the answer panel narrates the answer the panel
\* shows.
C26_ClipNarratesDisplayedAnswer ==
  (answerSection.mounted /\ answerSection.audioUrlState # 0) =>
    narrations[answerSection.audioUrlState].answer = answerSection.answer

\* ------------------------------------------------------------------------
\* Properties of the App: object URLs and the chat history
\* ------------------------------------------------------------------------
\* C27: the only object URL that handleQuery created and has not revoked is
\* the one stored in audioUrl: every URL that was replaced, by a new URL or
\* by null, has been revoked.
C27_ReplacedUrlRevoked == liveUrls \subseteq {audioUrl}

\* C28: no step removes an entry from the App's chat history: every entry
\* of chatHistory before the step is an entry of chatHistory after it, and
\* the history does not get shorter.
C28_HistoryEntriesKept ==
  [][/\ Len(chatHistory') >= Len(chatHistory)
     /\ \A e \in 1..Len(chatHistory) :
          \E f \in 1..Len(chatHistory') : chatHistory'[f] = chatHistory[e]]_vars

\* ------------------------------------------------------------------------
\* Properties of the streaming question field: timers of earlier sessions
\* ------------------------------------------------------------------------
\* C29: when the 20 s timer of a session that has already ended (socket
\* closed, microphone released) fires after a newer session was started, the
\* step changes neither the recording and transcribing flags nor the audio
\* context of the newer session.
C29_OldTimeoutSparesNewSession ==
  [][\A k \in 1..MaxStreams :
       (/\ Streaming_transcriptionTimeout(k)
        /\ k < Len(streams)
        /\ streams[k].socket = "closed"
        /\ ~streams[k].live)
       => /\ streamingInput'.isRecording = streamingInput.isRecording
          /\ streamingInput'.isTranscribing = streamingInput.isTranscribing
          /\ streams'[Len(streams)].ctx = streams[Len(streams)].ctx]_vars

\* ------------------------------------------------------------------------
\* Properties of batch recording: the recording flag
\* ------------------------------------------------------------------------
\* C30: while the question field on screen shows isRecording false, no
\* MediaRecorder that this instance of the field started is recording and no
\* microphone stream it opened for a recorder is live.
C30_FlagAgreesWithRecorder ==
  (queryInput.mounted /\ ~queryInput.isRecording) =>
    \A k \in 1..Len(sessions) :
      sessions[k].attached =>
        /\ sessions[k].recorder # "recording"
        /\ sessions[k].recorder # "none" => ~sessions[k].live

\* ------------------------------------------------------------------------
\* Properties of the chat-history view: the global flag and Replay
\* ------------------------------------------------------------------------
\* C31: window.isAnyAudioPlaying is true exactly when some clip is in the
\* Playing state, whether Play or Replay started it.
C31_FlagIffSomeClipPlaying ==
  isAnyAudioPlaying <=> (\E a \in 1..Len(audios) : Playing(a))

\* C32: whenever the Replay control of the chat-history view is enabled
\* (audioUrl is set), the object URL stored in audioUrl has not been revoked.
C32_ReplayUrlIsLive ==
  (chatHistoryView.mounted /\ chatHistoryView.audioUrl # 0) =>
    chatHistoryView.audioUrl \in objectUrls

\* ------------------------------------------------------------------------
\* Properties of the answer panel: the retry after a blocked autoplay
\* ------------------------------------------------------------------------
\* C33: a clip that the retry listeners started plays only while it is the
\* clip of the panel on screen, and is then the only clip playing: a click or
\* key press after the answer changed or the panel was torn down does not
\* start the old clip.
C33_RetryNeverStartsSupersededClip ==
  \A r \in 1..Len(narrations) :
    (narrations[r].retried /\ ~narrations[r].paused) =>
      /\ answerSection.mounted
      /\ answerSection.audioRef = r
      /\ \A q \in 1..Len(narrations) : q # r => narrations[q].paused

\* ------------------------------------------------------------------------
\* Properties of the App: the loading flag
\* ------------------------------------------------------------------------
\* C34: isLoading is true exactly while a request of some question is
\* unanswered, and at most one question has unanswered requests.
C34_LoadingIffInFlight ==
  LET InFlight == {i \in 1..Len(queries) :
                     \/ queries[i].textReq = "pending"
                     \/ queries[i].ttsReq = "pending"}
  IN /\ isLoading <=> InFlight # {}
     /\ Cardinality(InFlight) <= 1

\* ------------------------------------------------------------------------
\* Properties of the tabs and of upload outcomes
\* ------------------------------------------------------------------------
\* C35: the chat and history tabs are active only when ragInitialized is
\* true, and ragInitialized never returns to false.
C35_TabsNeedUpload ==
  /\ [](activeTab \in {"chat", "history"} => ragInitialized)
  /\ [][ragInitialized => ragInitialized']_vars

\* the history tab is open after a successful upload
C35_Witness ==
  /\ activeTab = "history"
  /\ ragInitialized
  /\ Len(uploads) >= 1 /\ uploads[1].state = "ok"

\* C36: the step in which an upload fails leaves ragInitialized, activeTab,
\* modelKey and uploadedFiles as they were, returns a failure result with the
\* error's message and leaves isRagBuilding false; the step in which an
\* upload succeeds leaves isRagBuilding false as well.
C36_FailedUploadChangesNothing ==
  [][\A u \in 1..MaxUploads :
       (u \in 1..Len(uploads) /\ uploads[u].state = "pending") =>
         /\ uploads'[u].state \in {"error", "fail"} =>
              /\ UNCHANGED <<ragInitialized, activeTab, modelKey, uploadedFiles>>
              /\ uploads'[u].result =
                   UploadResult(FALSE, uploadFilesError(uploads'[u].state))
              /\ ~isRagBuilding'
         /\ uploads'[u].state = "ok" => ~isRagBuilding']_vars

\* an upload has failed without an error body from the server
C36_Witness ==
  /\ Len(uploads) >= 1
  /\ uploads[1].state = "fail"
  /\ uploads[1].result = UploadResult(FALSE, UploadFailedMsg)
  /\ ~isRagBuilding /\ ~ragInitialized
  /\ activeTab = "upload" /\ modelKey = 0

\* C37: once every upload has been answered and the upload started last has
\* succeeded, modelKey and uploadedFiles are those of that upload, whatever
\* the order in which the responses arrived.
C37_LatestUploadWins ==
  (/\ Len(uploads) >= 1
   /\ \A u \in 1..Len(uploads) : uploads[u].state # "pending"
   /\ uploads[Len(uploads)].state = "ok")
  => /\ modelKey = Len(uploads)
     /\ uploadedFiles = [pdf |-> uploads[Len(uploads)].pdf,
                         txt |-> uploads[Len(uploads)].txt]

====
